---- MODULE Spec2Model ----
(***************************************************************************)
(* Model of the IP-to-claimed-region verification engine of the final      *)
(* expense lead server (src/unnamed/part_002): the region normalizer, the  *)
(* candidate selector and the verification flow run by POST /webhook and   *)
(* POST /test-webhook.                                                     *)
(*                                                                         *)
(* JavaScript strings are sequences of one-character strings, so that      *)
(* trim(), toUpperCase() and toLowerCase() are computed, not assumed.      *)
(* A JavaScript value is a record [t, s]: t is its type and s is           *)
(* String(value) as a character sequence.                                  *)
(***************************************************************************)
EXTENDS Integers, Sequences, FiniteSets, TLC

\* ------------------------------------------------------------------------
\* Strings
\* ------------------------------------------------------------------------

LowerLetters ==
  <<"a","b","c","d","e","f","g","h","i","j","k","l","m",
    "n","o","p","q","r","s","t","u","v","w","x","y","z">>

UpperLetters ==
  <<"A","B","C","D","E","F","G","H","I","J","K","L","M",
    "N","O","P","Q","R","S","T","U","V","W","X","Y","Z">>

\* Characters String.prototype.trim() removes (the ones the inputs use).
WhiteSpace == {" ", "\t", "\n"}

UpperChar(c) ==
  IF \E i \in DOMAIN LowerLetters : LowerLetters[i] = c
  THEN UpperLetters[CHOOSE i \in DOMAIN LowerLetters : LowerLetters[i] = c]
  ELSE c

LowerChar(c) ==
  IF \E i \in DOMAIN UpperLetters : UpperLetters[i] = c
  THEN LowerLetters[CHOOSE i \in DOMAIN UpperLetters : UpperLetters[i] = c]
  ELSE c

SwapChar(c) == IF UpperChar(c) # c THEN UpperChar(c) ELSE LowerChar(c)

ToUpperCase(s) == [i \in DOMAIN s |-> UpperChar(s[i])]

ToLowerCase(s) == [i \in DOMAIN s |-> LowerChar(s[i])]

SwapCase(s) == [i \in DOMAIN s |-> SwapChar(s[i])]

SetMin(S) == CHOOSE x \in S : \A y \in S : x <= y

SetMax(S) == CHOOSE x \in S : \A y \in S : y <= x

Trim(s) ==
  LET keep == {i \in DOMAIN s : s[i] \notin WhiteSpace}
  IN IF keep = {} THEN <<>> ELSE SubSeq(s, SetMin(keep), SetMax(keep))

\* ------------------------------------------------------------------------
\* JavaScript values
\* ------------------------------------------------------------------------

Str(s) == [t |-> "string", s |-> s]

Undefined == [t |-> "undefined", s |-> <<"undefined">>]

Null == [t |-> "null", s |-> <<"null">>]

Num42 == [t |-> "number", s |-> <<"4","2">>]

Num0 == [t |-> "number", s |-> <<"0">>]

BoolTrue == [t |-> "boolean", s |-> <<"true">>]

PlainObject == [t |-> "object", s |-> <<"[object Object]">>]

\* The two values every plain object inherits under an all-lower-case key.
ObjectConstructor == [t |-> "function", s |-> <<"function Object() { [native code] }">>]

ObjectPrototype == [t |-> "object", s |-> <<"[object Object]">>]

NativeFunction == [t |-> "function", s |-> <<"function () { [native code] }">>]

\* ToBoolean(v)
Truthy(v) ==
  CASE v.t = "string" -> v.s # <<>>
    [] v.t = "number" -> v.s # <<"0">>
    [] v.t = "boolean" -> v.s = <<"true">>
    [] v.t \in {"undefined", "null"} -> FALSE
    [] OTHER -> TRUE

\* a || b
JsOr(a, b) == IF Truthy(a) THEN a ELSE b

\* Properties a plain object ({...} or Object.fromEntries) inherits from
\* Object.prototype.
ObjectPrototypeEntries ==
  <<
    <<<<"c","o","n","s","t","r","u","c","t","o","r">>, ObjectConstructor>>,
    <<<<"_","_","p","r","o","t","o","_","_">>, ObjectPrototype>>,
    <<<<"t","o","S","t","r","i","n","g">>, NativeFunction>>,
    <<<<"v","a","l","u","e","O","f">>, NativeFunction>>,
    <<<<"h","a","s","O","w","n","P","r","o","p","e","r","t","y">>, NativeFunction>>
  >>

HasOwn(entries, key) == \E i \in DOMAIN entries : entries[i][1] = key

\* The own value of key: with a repeated key the last entry wins.
OwnValue(entries, key) ==
  entries[SetMax({i \in DOMAIN entries : entries[i][1] = key})][2]

\* obj[key] for a plain object whose own string-valued entries are `entries`.
ObjGet(entries, key) ==
  IF HasOwn(entries, key) THEN Str(OwnValue(entries, key))
  ELSE IF HasOwn(ObjectPrototypeEntries, key) THEN OwnValue(ObjectPrototypeEntries, key)
  ELSE Undefined

\* ------------------------------------------------------------------------
\* Region tables
\* ------------------------------------------------------------------------

STATE_CODE_TO_NAME ==
  <<
    <<<<"A","L">>, <<"A","l","a","b","a","m","a">>>>,
    <<<<"A","K">>, <<"A","l","a","s","k","a">>>>,
    <<<<"A","Z">>, <<"A","r","i","z","o","n","a">>>>,
    <<<<"A","R">>, <<"A","r","k","a","n","s","a","s">>>>,
    <<<<"C","A">>, <<"C","a","l","i","f","o","r","n","i","a">>>>,
    <<<<"C","O">>, <<"C","o","l","o","r","a","d","o">>>>,
    <<<<"C","T">>, <<"C","o","n","n","e","c","t","i","c","u","t">>>>,
    <<<<"D","E">>, <<"D","e","l","a","w","a","r","e">>>>,
    <<<<"F","L">>, <<"F","l","o","r","i","d","a">>>>,
    <<<<"G","A">>, <<"G","e","o","r","g","i","a">>>>,
    <<<<"H","I">>, <<"H","a","w","a","i","i">>>>,
    <<<<"I","D">>, <<"I","d","a","h","o">>>>,
    <<<<"I","L">>, <<"I","l","l","i","n","o","i","s">>>>,
    <<<<"I","N">>, <<"I","n","d","i","a","n","a">>>>,
    <<<<"I","A">>, <<"I","o","w","a">>>>,
    <<<<"K","S">>, <<"K","a","n","s","a","s">>>>,
    <<<<"K","Y">>, <<"K","e","n","t","u","c","k","y">>>>,
    <<<<"L","A">>, <<"L","o","u","i","s","i","a","n","a">>>>,
    <<<<"M","E">>, <<"M","a","i","n","e">>>>,
    <<<<"M","D">>, <<"M","a","r","y","l","a","n","d">>>>,
    <<<<"M","A">>, <<"M","a","s","s","a","c","h","u","s","e","t","t","s">>>>,
    <<<<"M","I">>, <<"M","i","c","h","i","g","a","n">>>>,
    <<<<"M","N">>, <<"M","i","n","n","e","s","o","t","a">>>>,
    <<<<"M","S">>, <<"M","i","s","s","i","s","s","i","p","p","i">>>>,
    <<<<"M","O">>, <<"M","i","s","s","o","u","r","i">>>>,
    <<<<"M","T">>, <<"M","o","n","t","a","n","a">>>>,
    <<<<"N","E">>, <<"N","e","b","r","a","s","k","a">>>>,
    <<<<"N","V">>, <<"N","e","v","a","d","a">>>>,
    <<<<"N","H">>, <<"N","e","w"," ","H","a","m","p","s","h","i","r","e">>>>,
    <<<<"N","J">>, <<"N","e","w"," ","J","e","r","s","e","y">>>>,
    <<<<"N","M">>, <<"N","e","w"," ","M","e","x","i","c","o">>>>,
    <<<<"N","Y">>, <<"N","e","w"," ","Y","o","r","k">>>>,
    <<<<"N","C">>, <<"N","o","r","t","h"," ","C","a","r","o","l","i","n","a">>>>,
    <<<<"N","D">>, <<"N","o","r","t","h"," ","D","a","k","o","t","a">>>>,
    <<<<"O","H">>, <<"O","h","i","o">>>>,
    <<<<"O","K">>, <<"O","k","l","a","h","o","m","a">>>>,
    <<<<"O","R">>, <<"O","r","e","g","o","n">>>>,
    <<<<"P","A">>, <<"P","e","n","n","s","y","l","v","a","n","i","a">>>>,
    <<<<"R","I">>, <<"R","h","o","d","e"," ","I","s","l","a","n","d">>>>,
    <<<<"S","C">>, <<"S","o","u","t","h"," ","C","a","r","o","l","i","n","a">>>>,
    <<<<"S","D">>, <<"S","o","u","t","h"," ","D","a","k","o","t","a">>>>,
    <<<<"T","N">>, <<"T","e","n","n","e","s","s","e","e">>>>,
    <<<<"T","X">>, <<"T","e","x","a","s">>>>,
    <<<<"U","T">>, <<"U","t","a","h">>>>,
    <<<<"V","T">>, <<"V","e","r","m","o","n","t">>>>,
    <<<<"V","A">>, <<"V","i","r","g","i","n","i","a">>>>,
    <<<<"W","A">>, <<"W","a","s","h","i","n","g","t","o","n">>>>,
    <<<<"W","V">>, <<"W","e","s","t"," ","V","i","r","g","i","n","i","a">>>>,
    <<<<"W","I">>, <<"W","i","s","c","o","n","s","i","n">>>>,
    <<<<"W","Y">>, <<"W","y","o","m","i","n","g">>>>,
    <<<<"D","C">>, <<"D","i","s","t","r","i","c","t"," ","o","f"," ","C","o","l","u","m","b","i","a">>>>
  >>

STATE_TO_ZIP ==
  <<
    <<<<"A","L">>, <<"3","6","1","0","4">>>>,
    <<<<"A","K">>, <<"9","9","5","0","1">>>>,
    <<<<"A","Z">>, <<"8","5","0","0","1">>>>,
    <<<<"A","R">>, <<"7","2","2","0","1">>>>,
    <<<<"C","A">>, <<"9","5","8","1","4">>>>,
    <<<<"C","O">>, <<"8","0","2","0","2">>>>,
    <<<<"C","T">>, <<"0","6","1","0","3">>>>,
    <<<<"D","E">>, <<"1","9","9","0","1">>>>,
    <<<<"F","L">>, <<"3","2","3","0","1">>>>,
    <<<<"G","A">>, <<"3","0","3","0","3">>>>,
    <<<<"H","I">>, <<"9","6","8","1","3">>>>,
    <<<<"I","D">>, <<"8","3","7","0","2">>>>,
    <<<<"I","L">>, <<"6","2","7","0","1">>>>,
    <<<<"I","N">>, <<"4","6","2","0","4">>>>,
    <<<<"I","A">>, <<"5","0","3","0","9">>>>,
    <<<<"K","S">>, <<"6","6","6","0","3">>>>,
    <<<<"K","Y">>, <<"4","0","6","0","1">>>>,
    <<<<"L","A">>, <<"7","0","8","0","2">>>>,
    <<<<"M","E">>, <<"0","4","3","3","0">>>>,
    <<<<"M","D">>, <<"2","1","4","0","1">>>>,
    <<<<"M","A">>, <<"0","2","1","0","8">>>>,
    <<<<"M","I">>, <<"4","8","9","3","3">>>>,
    <<<<"M","N">>, <<"5","5","1","0","2">>>>,
    <<<<"M","S">>, <<"3","9","2","0","5">>>>,
    <<<<"M","O">>, <<"6","5","1","0","1">>>>,
    <<<<"M","T">>, <<"5","9","6","0","1">>>>,
    <<<<"N","E">>, <<"6","8","5","0","8">>>>,
    <<<<"N","V">>, <<"8","9","7","0","1">>>>,
    <<<<"N","H">>, <<"0","3","3","0","1">>>>,
    <<<<"N","J">>, <<"0","8","6","0","8">>>>,
    <<<<"N","M">>, <<"8","7","5","0","1">>>>,
    <<<<"N","Y">>, <<"1","2","2","0","7">>>>,
    <<<<"N","C">>, <<"2","7","6","0","1">>>>,
    <<<<"N","D">>, <<"5","8","5","0","1">>>>,
    <<<<"O","H">>, <<"4","3","2","1","5">>>>,
    <<<<"O","K">>, <<"7","3","1","0","2">>>>,
    <<<<"O","R">>, <<"9","7","3","0","1">>>>,
    <<<<"P","A">>, <<"1","7","1","0","1">>>>,
    <<<<"R","I">>, <<"0","2","9","0","3">>>>,
    <<<<"S","C">>, <<"2","9","2","0","1">>>>,
    <<<<"S","D">>, <<"5","7","5","0","1">>>>,
    <<<<"T","N">>, <<"3","7","2","1","9">>>>,
    <<<<"T","X">>, <<"7","8","7","0","1">>>>,
    <<<<"U","T">>, <<"8","4","1","1","1">>>>,
    <<<<"V","T">>, <<"0","5","6","0","2">>>>,
    <<<<"V","A">>, <<"2","3","2","1","9">>>>,
    <<<<"W","A">>, <<"9","8","5","0","1">>>>,
    <<<<"W","V">>, <<"2","5","3","0","1">>>>,
    <<<<"W","I">>, <<"5","3","7","0","3">>>>,
    <<<<"W","Y">>, <<"8","2","0","0","1">>>>,
    <<<<"D","C">>, <<"2","0","0","0","1">>>>
  >>

SECONDARY_ZIPS ==
  <<
    <<<<"P","A">>, <<<<"1","9","1","0","3">>, <<"1","5","2","2","2">>, <<"1","8","1","0","1">>, <<"1","9","0","6","7">>>>>>,
    <<<<"C","A">>, <<<<"9","0","0","1","2">>, <<"9","4","1","0","3">>, <<"9","5","8","1","4">>, <<"9","2","8","0","5">>>>>>,
    <<<<"T","X">>, <<<<"7","7","0","0","2">>, <<"7","5","2","0","1">>, <<"7","8","7","0","1">>, <<"7","8","2","0","5">>>>>>,
    <<<<"F","L">>, <<<<"3","3","1","3","0">>, <<"3","3","6","0","2">>, <<"3","2","8","0","1">>, <<"3","2","2","0","2">>>>>>,
    <<<<"N","Y">>, <<<<"1","0","0","0","7">>, <<"1","1","2","0","1">>, <<"1","4","6","0","4">>, <<"1","2","2","0","7">>>>>>,
    <<<<"I","L">>, <<<<"6","0","6","0","1">>, <<"6","0","3","0","2">>, <<"6","2","7","0","1">>>>>>,
    <<<<"M","I">>, <<<<"4","8","2","2","6">>, <<"4","9","5","0","3">>, <<"4","8","9","3","3">>>>>>,
    <<<<"T","N">>, <<<<"3","7","2","1","9">>, <<"3","8","1","0","3">>, <<"3","7","9","0","2">>>>>>
  >>

\* Object.fromEntries(entries.map(([code, name]) => [name, code])): the
\* name is used as the key exactly as written in STATE_CODE_TO_NAME.
STATE_NAME_TO_CODE_caseKept ==
  [i \in DOMAIN STATE_CODE_TO_NAME |->
     <<STATE_CODE_TO_NAME[i][2], STATE_CODE_TO_NAME[i][1]>>]

STATE_NAME_TO_CODE ==
  [i \in DOMAIN STATE_CODE_TO_NAME |->
     <<ToLowerCase(STATE_CODE_TO_NAME[i][2]), STATE_CODE_TO_NAME[i][1]>>]

EmptyPair == [code |-> Str(<<>>), name |-> Str(<<>>)]

\* normalizeState with the full-name lookup on the trimmed text as typed.
normalizeState_noLower(value) ==
  IF ~Truthy(value) \/ value.t # "string" THEN EmptyPair
  ELSE
    LET trimmed == Trim(value.s)
        upper == ToUpperCase(trimmed)
        byCode == ObjGet(STATE_CODE_TO_NAME, upper)
        code == JsOr(ObjGet(STATE_NAME_TO_CODE, trimmed), Str(<<>>))
    IN IF Truthy(byCode) THEN [code |-> Str(upper), name |-> byCode]
       ELSE IF Truthy(code)
            THEN [code |-> code, name |-> ObjGet(STATE_CODE_TO_NAME, code.s)]
            ELSE EmptyPair

normalizeState(value) ==
  IF ~Truthy(value) \/ value.t # "string" THEN EmptyPair
  ELSE
    LET trimmed == Trim(value.s)
        upper == ToUpperCase(trimmed)
        byCode == ObjGet(STATE_CODE_TO_NAME, upper)
        code == JsOr(ObjGet(STATE_NAME_TO_CODE, ToLowerCase(trimmed)), Str(<<>>))
    IN IF Truthy(byCode) THEN [code |-> Str(upper), name |-> byCode]
       ELSE IF Truthy(code)
            THEN [code |-> code, name |-> ObjGet(STATE_CODE_TO_NAME, code.s)]
            ELSE EmptyPair

\* ------------------------------------------------------------------------
\* Candidate selector
\* ------------------------------------------------------------------------

\* SECONDARY_ZIPS[code] || []
SecondaryFor(code) ==
  IF \E i \in DOMAIN SECONDARY_ZIPS : SECONDARY_ZIPS[i][1] = code
  THEN SECONDARY_ZIPS[SetMax({i \in DOMAIN SECONDARY_ZIPS : SECONDARY_ZIPS[i][1] = code})][2]
  ELSE <<>>

Includes(list, z) == \E i \in DOMAIN list : list[i] = z

RECURSIVE PushNew(_, _)
\* for (const z of extras) if (!list.includes(z)) list.push(z)
PushNew(list, extras) ==
  IF extras = <<>> THEN list
  ELSE PushNew(IF Includes(list, Head(extras)) THEN list ELSE Append(list, Head(extras)),
               Tail(extras))

\* pickZipsForState pushing every secondary code without the includes test.
pickZipsForState_noDedupe(code) ==
  LET primary == ObjGet(STATE_TO_ZIP, code)
  IN (IF Truthy(primary) THEN <<primary.s>> ELSE <<>>) \o SecondaryFor(code)

\* pickZipsForState without the push of the primary code.
pickZipsForState_noPrimary(code) == PushNew(<<>>, SecondaryFor(code))

\* code is a string that is no inherited property name of a plain object
\* (the callers pass upper-cased region codes).
pickZipsForState(code) ==
  LET primary == ObjGet(STATE_TO_ZIP, code)
      extras == SecondaryFor(code)
  IN PushNew(IF Truthy(primary) THEN <<primary.s>> ELSE <<>>, extras)

\* ------------------------------------------------------------------------
\* Address helpers
\* ------------------------------------------------------------------------

Digits == {"0","1","2","3","4","5","6","7","8","9"}

StartsWith(s, p) == Len(s) >= Len(p) /\ SubSeq(s, 1, Len(p)) = p

\* s.slice(n)
SliceFrom(s, n) == SubSeq(s, n + 1, Len(s))

\* s.indexOf(ch), 0-based, -1 when absent.
IndexOf(s, ch) ==
  IF \E i \in DOMAIN s : s[i] = ch
  THEN SetMin({i \in DOMAIN s : s[i] = ch}) - 1
  ELSE -1

RECURSIVE Split(_, _)
\* s.split(ch)
Split(s, ch) ==
  LET at == IndexOf(s, ch)
  IN IF at = -1 THEN <<s>>
     ELSE <<SubSeq(s, 1, at)>> \o Split(SliceFrom(s, at + 1), ch)

RECURSIVE Join(_, _)
\* parts.join(ch)
Join(parts, ch) ==
  IF parts = <<>> THEN <<>>
  ELSE IF Len(parts) = 1 THEN parts[1]
  ELSE parts[1] \o <<ch>> \o Join(Tail(parts), ch)

AllDigits(s) == \A i \in DOMAIN s : s[i] \in Digits

\* /^(\d{1,3}\.){3}\d{1,3}$/.test(s)
IsDottedQuad(s) ==
  LET parts == Split(s, ".")
  IN /\ Len(parts) = 4
     /\ \A i \in 1..4 : Len(parts[i]) \in 1..3 /\ AllDigits(parts[i])

\* /\d+\.\d+\.\d+\.\d+/.test(s): the pattern is not anchored.
ContainsDottedQuad(s) ==
  \E a, b, c \in DOMAIN s :
    /\ a < b /\ b < c
    /\ s[a] = "." /\ s[b] = "." /\ s[c] = "."
    /\ a > 1 /\ s[a - 1] \in Digits
    /\ b > a + 1 /\ AllDigits(SubSeq(s, a + 1, b - 1))
    /\ c > b + 1 /\ AllDigits(SubSeq(s, b + 1, c - 1))
    /\ c < Len(s) /\ s[c + 1] \in Digits

Ipv4MappedPrefix == <<":",":","f","f","f","f",":">>

\* The socket's view of one HTTP request: the headers getClientIP reads.
\* Each is a string or undefined.
getClientIP(req) ==
  LET xff == req.xff
      fromXff == IF Truthy(xff) THEN Trim(Split(xff.s, ",")[1]) ELSE <<>>
      fromReal == IF fromXff # <<>> THEN fromXff ELSE JsOr(req.realIp, Str(<<>>)).s
      fromSock == IF fromReal # <<>> THEN fromReal ELSE JsOr(req.remote, Str(<<>>)).s
  IN IF fromSock # <<>> /\ StartsWith(fromSock, Ipv4MappedPrefix)
     THEN SliceFrom(fromSock, 7)
     ELSE fromSock

\* /^172\.(1[6-9]|2\d|3[0-1])\./.test(ip)
Is172Private(ip) ==
  /\ Len(ip) >= 7
  /\ SubSeq(ip, 1, 4) = <<"1","7","2",".">>
  /\ \/ ip[5] = "1" /\ ip[6] \in {"6","7","8","9"}
     \/ ip[5] = "2" /\ ip[6] \in Digits
     \/ ip[5] = "3" /\ ip[6] \in {"0","1"}
  /\ ip[7] = "."

isPrivateIP(ip) ==
  \/ ip = <<>>
  \/ ip = <<"1","2","7",".","0",".","0",".","1">>
  \/ ip = <<":",":","1">>
  \/ StartsWith(ip, <<"1","0",".">>)
  \/ StartsWith(ip, <<"1","9","2",".","1","6","8",".">>)
  \/ Is172Private(ip)

\* maskIP: IPv4 -> /24, IPv6 -> first four groups and ::/64, else ''.
maskIP(ip) ==
  IF ~Truthy(ip) \/ ip.t # "string" THEN <<>>
  ELSE
    LET unmapped == IF StartsWith(ip.s, Ipv4MappedPrefix) THEN SliceFrom(ip.s, 7) ELSE ip.s
        zoneIdx == IndexOf(unmapped, "%")
        addr == IF zoneIdx # -1 THEN SubSeq(unmapped, 1, zoneIdx) ELSE unmapped
        parts == Split(addr, ".")
        hextets == Split(addr, ":")
    IN IF IsDottedQuad(addr)
       THEN Join([parts EXCEPT ![4] = <<"0">>], ".") \o <<"/","2","4">>
       ELSE IF Len(hextets) > 1
            THEN Join(SubSeq(hextets, 1, IF Len(hextets) < 4 THEN Len(hextets) ELSE 4), ":")
                   \o <<":",":","/","6","4">>
            ELSE <<>>

\* encodeURIComponent on the characters the discovered texts hold.
EncodeChar(c) ==
  IF c = ":" THEN <<"%","3","A">>
  ELSE IF c = "%" THEN <<"%","2","5">>
  ELSE IF c = " " THEN <<"%","2","0">>
  ELSE IF c = "=" THEN <<"%","3","D">>
  ELSE IF c = "<" THEN <<"%","3","C">>
  ELSE <<c>>

RECURSIVE encodeURIComponent(_)
encodeURIComponent(s) ==
  IF s = <<>> THEN <<>> ELSE EncodeChar(Head(s)) \o encodeURIComponent(Tail(s))

\* lookupIpGeo, line 147: the address put in the provider URL; '' asks the
\* provider for the caller of the request, the server itself.
LookupTarget(ip) ==
  IF ip = <<>> \/ isPrivateIP(ip) THEN <<>> ELSE encodeURIComponent(ip)

\* ------------------------------------------------------------------------
\* Credentials and external services
\* ------------------------------------------------------------------------

BoolFalse == [t |-> "boolean", s |-> <<"false">>]

\* String(v)
StringOf(v) == v.s

NoCfg == [ok |-> FALSE, host |-> <<>>, port |-> <<>>, user |-> <<>>, pass |-> <<>>]

\* The answer of POST <PROXY_SERVICE_URL>/get-proxy that found no use.
NoProxyData == [host |-> Undefined, port |-> Undefined, user |-> Undefined, pass |-> Undefined]

\* Lines 205-208: one POST to the credential service when its URL is set.
ServiceRequests(e) == IF e.service THEN 1 ELSE 0

\* getProxyConfigForZip that gives up when the credential service fails.
getProxyConfigForZip_noFallback(e, zip, svc) ==
  LET p == svc.proxy
  IN IF e.service
     THEN IF ~svc.err /\ Truthy(p.host) /\ Truthy(p.port) /\ Truthy(p.user) /\ Truthy(p.pass)
          THEN [ok |-> TRUE, host |-> StringOf(p.host), port |-> StringOf(p.port),
                user |-> StringOf(p.user), pass |-> StringOf(p.pass)]
          ELSE NoCfg
     ELSE IF e.host # <<>> /\ e.port # <<>> /\ e.baseUser # <<>> /\ e.pass # <<>>
          THEN [ok |-> TRUE, host |-> e.host, port |-> e.port,
                user |-> e.baseUser \o <<";","z","i","p",".">> \o zip, pass |-> e.pass]
          ELSE NoCfg

\* getProxyConfigForZip with the answer of the credential service: svc.err
\* is a transport error or timeout, svc.proxy is data?.proxy. Without a
\* PROXY_SERVICE_URL no request is made.
getProxyConfigForZip(e, zip, svc) ==
  LET p == svc.proxy
  IN IF e.service /\ ~svc.err
        /\ Truthy(p.host) /\ Truthy(p.port) /\ Truthy(p.user) /\ Truthy(p.pass)
     THEN [ok |-> TRUE, host |-> StringOf(p.host), port |-> StringOf(p.port),
           user |-> StringOf(p.user), pass |-> StringOf(p.pass)]
     ELSE IF e.host # <<>> /\ e.port # <<>> /\ e.baseUser # <<>> /\ e.pass # <<>>
          THEN [ok |-> TRUE, host |-> e.host, port |-> e.port,
                user |-> e.baseUser \o <<";","z","i","p",".">> \o zip, pass |-> e.pass]
          ELSE NoCfg

\* new URL(targetUrl) and its protocol: the text up to and including the
\* first ':'; new URL throws on a text without a scheme.
IsUrl(u) == IndexOf(u, ":") > 0

Protocol(u) == SubSeq(u, 1, IndexOf(u, ":") + 1)

\* Line 267: the status test of res.on('end').
Resolves(resp) == resp.status >= 200 /\ resp.status < 300

\* getTextViaHttpProxy: the requests it makes and how its promise settles.
\* resp.status 0 stands for the request's 'error' event: no connection, or
\* 'timeout' followed by req.destroy(err), before a response arrived.
\* resp.complete says whether the whole response arrived. When the peer
\* closes the connection after the response began, the response object is
\* told ('aborted'), and it has listeners for 'data' and 'end' only:
\* resp.ended says whether the runtime still emits 'end' (it does up to
\* Node 12, with the data received so far; later versions do not, and then
\* neither resolve nor reject is called).
getTextViaHttpProxy(targetUrl, resp) ==
  IF ~IsUrl(targetUrl) \/ Protocol(targetUrl) # <<"h","t","t","p",":">>
  THEN [requests |-> 0, outcome |-> "rejected", data |-> <<>>]
  ELSE IF resp.status = 0
  THEN [requests |-> 1, outcome |-> "rejected", data |-> <<>>]
  ELSE IF ~resp.ended
  THEN [requests |-> 1, outcome |-> "pending", data |-> <<>>]
  ELSE IF Resolves(resp)
  THEN [requests |-> 1, outcome |-> "resolved", data |-> resp.text]
  ELSE [requests |-> 1, outcome |-> "rejected", data |-> <<>>]

\* Line 285: the target of getGeoViaProxy.
GeoTarget == <<"h","t","t","p",":","/","/","i","p","-","a","p","i",".","c","o","m","/","j","s","o","n">>

\* The tunnel call of getGeoViaProxy; the body text is kept as what
\* JSON.parse makes of it.
GeoCall(resp) ==
  getTextViaHttpProxy(GeoTarget, [status |-> resp.status, complete |-> resp.complete,
                                  ended |-> resp.ended, text |-> resp.body])

NoGeo == [ok |-> FALSE, ip |-> <<>>, region_code |-> <<>>, region |-> <<>>, postal |-> <<>>]

\* getGeoViaProxy on the response of the tunnel request to ip-api.com:
\* resp.body.json says whether JSON.parse accepts the body.
getGeoViaProxy(resp) ==
  IF GeoCall(resp).outcome # "resolved" \/ ~resp.body.json THEN NoGeo
  ELSE IF resp.body.status = Str(<<"s","u","c","c","e","s","s">>)
       THEN [ok |-> TRUE,
             ip |-> Trim(StringOf(JsOr(resp.body.query, Str(<<>>)))),
             region_code |-> ToUpperCase(StringOf(JsOr(resp.body.region, Str(<<>>)))),
             region |-> StringOf(JsOr(resp.body.regionName, Str(<<>>))),
             postal |-> StringOf(JsOr(resp.body.zip, Str(<<>>)))]
       ELSE NoGeo

\* The three address-echo endpoints of getIpViaProxy, in their order.
IpEchoTargets ==
  << <<"h","t","t","p",":","/","/","w","h","a","t","i","s","m","y","i","p",".","a","k","a","m","a","i",".","c","o","m","/">>, <<"h","t","t","p",":","/","/","a","p","i",".","i","p","i","f","y",".","o","r","g","?","f","o","r","m","a","t","=","t","e","x","t">>,
     <<"h","t","t","p",":","/","/","i","p","i","n","f","o",".","i","o","/","i","p">> >>

\* getIpViaProxy, line 233: does this response end the search?
EchoAccepts(targetUrl, resp) ==
  LET text == getTextViaHttpProxy(targetUrl, resp)
  IN text.outcome = "resolved" /\ text.data # <<>> /\ ContainsDottedQuad(text.data)

NoData ==
  [kind |-> "null", success |-> Undefined, ip |-> Undefined, region_code |-> Undefined,
   region |-> Undefined, postal |-> Undefined]

\* lookupIpGeo on the answer of ipwho.is: resp.err is a transport error or
\* a timeout, resp.data the parsed body.
lookupIpGeo(resp) ==
  IF resp.err THEN NoData
  ELSE IF resp.data.kind # "null" /\ resp.data.success # BoolFalse THEN resp.data
  ELSE NoData

\* stateMatch comparing the codes whenever an observed code is there.
stateMatch_ignoreEmptyClaim(claimed, observed) ==
  IF observed # <<>> THEN (IF claimed.s = observed THEN "true" ELSE "false") ELSE ""

\* Line 437: inputState.code && ipRegionCode ? (code === ipRegionCode) : ''
stateMatch(claimed, observed) ==
  IF Truthy(claimed) /\ observed # <<>>
  THEN (IF claimed = Str(observed) THEN "true" ELSE "false")
  ELSE ""

\* Line 445
ip_state_match(sm) == IF sm = "" THEN "Unknown" ELSE IF sm = "true" THEN "Yes" ELSE "No"

\* ------------------------------------------------------------------------
\* Bounds and input sets
\* ------------------------------------------------------------------------

\* Longest run of white space put before and after an input.
MaxPad == 1

PadChars == {" ", "\t"}

Pads == UNION {[1..k -> PadChars] : k \in 0..MaxPad}

Codes == {STATE_CODE_TO_NAME[i][1] : i \in DOMAIN STATE_CODE_TO_NAME}

NameOf(c) == OwnValue(STATE_CODE_TO_NAME, c)

AltCase(s) ==
  [i \in DOMAIN s |-> IF i % 2 = 1 THEN UpperChar(s[i]) ELSE LowerChar(s[i])]

\* Letter-case variants of s; for a two-letter code these are all four.
CaseVariants(s) ==
  {s, ToUpperCase(s), ToLowerCase(s), SwapCase(s), AltCase(s), SwapCase(AltCase(s))}

Padded(S) == {l \o s \o r : l \in Pads, s \in S, r \in Pads}

\* Every way the inputs write the region c by code, and by full name.
CodeSpellings == [c \in Codes |-> Padded(CaseVariants(c))]

NameSpellings == [c \in Codes |-> Padded(CaseVariants(NameOf(c)))]

\* Strings that are no region code and no region name.
OtherStrings ==
  { <<>>,
    <<"N","o","t"," ","A"," ","S","t","a","t","e">>,
    <<"P","e","n","n">>,
    <<"T","e","x","a">>,
    <<"T","e","x","a","s","s">>,
    <<"T"," ","X">>,
    <<"T","X","X">>,
    <<"X">>,
    <<"Z","Z">>,
    <<"P","R">>,
    <<"N","e","w","Y","o","r","k">>,
    <<"N","e","w"," "," ","Y","o","r","k">>,
    <<"c","o","n","s","t","r","u","c","t","o","r">>,
    <<"C","o","n","s","t","r","u","c","t","o","r">>,
    <<"_","_","p","r","o","t","o","_","_">>,
    <<"t","o","S","t","r","i","n","g">> }

NonStrings == {Undefined, Null, Num0, Num42, BoolTrue, PlainObject}

NormalizeInputs ==
  {Str(s) : s \in UNION {CodeSpellings[c] \cup NameSpellings[c] : c \in Codes}}
    \cup {Str(s) : s \in Padded(OtherStrings)}
    \cup NonStrings

\* Arguments of pickZipsForState: every two-letter upper-case string.
Range(f) == {f[i] : i \in DOMAIN f}

CodeInputs == {<<a, b>> : a \in Range(UpperLetters), b \in Range(UpperLetters)}

\* ------------------------------------------------------------------------
\* Inputs of the verification flow
\* ------------------------------------------------------------------------

PublicIp == <<"1","9","8",".","5","1",".","1","0","0",".","9">>

ClientIp == <<"2","0","3",".","0",".","1","1","3",".","7">>

PrivateIp == <<"1","0",".","0",".","0",".","5">>

ClientIp6 == <<"2","0","0","1",":","d","b","8",":","1",":","2",":","3",":","4",":","5",":","6">>

PA == <<"P","A">>

TX == <<"T","X">>

NY == <<"N","Y">>

\* Values of the payload's state field.
FlowInputs ==
  { Str(<<"P","e","n","n","s","y","l","v","a","n","i","a">>),
    Str(TX),
    Str(<<" ","t","x"," ">>),
    Str(<<"C","a","l","i","f","o","r","n","i","a">>),
    Str(<<>>),
    Str(<<"N","o","t"," ","A"," ","S","t","a","t","e">>),
    Str(<<"c","o","n","s","t","r","u","c","t","o","r">>),
    Undefined,
    Num42 }

\* process.env: PROXY_SERVICE_URL set or not, and the four PROXY_* values.
Environments ==
  { [service |-> s, host |-> h[1], port |-> h[2], baseUser |-> h[3], pass |-> h[4]] :
      s \in BOOLEAN,
      h \in { << <<"g","w">>, <<"8","2","3">>, <<"u">>, <<"p","w">> >>,
              << <<"g","w">>, <<"8","2","3">>, <<"u">>, <<>> >>,
              << <<>>, <<>>, <<>>, <<>> >> } }

\* Answers of the credential service.
ServiceResponses ==
  { [err |-> TRUE, proxy |-> NoProxyData],
    [err |-> FALSE, proxy |-> NoProxyData],
    [err |-> FALSE, proxy |-> [host |-> Str(<<"s","v">>), port |-> Str(<<"8","0">>),
                               user |-> Str(<<"s","u">>), pass |-> Undefined]],
    [err |-> FALSE, proxy |-> [host |-> Str(<<"s","v">>), port |-> Num42,
                               user |-> Str(<<"s","u">>), pass |-> Str(<<"s","p">>)]] }

NoBody ==
  [json |-> FALSE, status |-> Undefined, query |-> Undefined, region |-> Undefined,
   regionName |-> Undefined, zip |-> Undefined]

GeoBody(st, q, r) ==
  [json |-> TRUE, status |-> Str(st), query |-> q, region |-> r,
   regionName |-> (IF r.t = "string" /\ HasOwn(STATE_CODE_TO_NAME, ToUpperCase(r.s))
                   THEN Str(NameOf(ToUpperCase(r.s))) ELSE Undefined),
   zip |-> Str(<<"1","0","0","0","1">>)]

\* Responses of the tunnel request to ip-api.com: no connection (or a
\* timeout before any response), a proxy refusal, a body that is no JSON, a
\* 'fail' document, 'success' documents with and without the query
\* address, and responses whose connection closed before the body ended.
DirectResponses ==
  { [status |-> 0, complete |-> FALSE, ended |-> FALSE, body |-> NoBody],
    [status |-> 407, complete |-> TRUE, ended |-> TRUE, body |-> NoBody],
    [status |-> 200, complete |-> TRUE, ended |-> TRUE, body |-> NoBody],
    [status |-> 200, complete |-> FALSE, ended |-> FALSE, body |-> NoBody],
    [status |-> 200, complete |-> FALSE, ended |-> TRUE, body |-> NoBody],
    [status |-> 200, complete |-> TRUE, ended |-> TRUE, body |-> GeoBody(<<"f","a","i","l">>, Undefined, Undefined)] }
  \cup
  { [status |-> 200, complete |-> TRUE, ended |-> TRUE, body |-> GeoBody(<<"s","u","c","c","e","s","s">>, q, r)] :
      q \in {Str(PublicIp), Undefined},
      r \in {Str(PA), Str(<<"t","x">>), Str(NY), Undefined} }

\* Responses of an address-echo endpoint through the tunnel.
EchoResponses ==
  { [status |-> 0, complete |-> FALSE, ended |-> FALSE, text |-> <<>>],
    [status |-> 502, complete |-> TRUE, ended |-> TRUE, text |-> PublicIp],
    [status |-> 200, complete |-> TRUE, ended |-> TRUE, text |-> <<>>],
    [status |-> 200, complete |-> TRUE, ended |-> TRUE, text |-> <<"e","r","r">>],
    [status |-> 200, complete |-> TRUE, ended |-> TRUE, text |-> PublicIp \o <<"\n">>],
    [status |-> 200, complete |-> FALSE, ended |-> FALSE, text |-> PublicIp],
    [status |-> 200, complete |-> FALSE, ended |-> TRUE, text |-> <<"1","9","8",".","5","1",".","1">>],
    [status |-> 200, complete |-> TRUE, ended |-> TRUE, text |-> PrivateIp],
    [status |-> 200, complete |-> TRUE, ended |-> TRUE, text |-> <<"i","p","=","1",".","2",".","3",".","4","<">>] }

GeoData(rc) ==
  [kind |-> "object", success |-> BoolTrue, ip |-> Str(PublicIp), region_code |-> rc,
   region |-> (IF rc.t = "string" /\ HasOwn(STATE_CODE_TO_NAME, ToUpperCase(rc.s))
               THEN Str(NameOf(ToUpperCase(rc.s))) ELSE Undefined),
   postal |-> Str(<<"1","0","0","0","1">>)]

\* Answers of ipwho.is: an error, a reported failure, a body that is no
\* JSON object, and documents whose region_code is a code, missing, or no
\* string.
PlainResponses ==
  { [err |-> TRUE, data |-> NoData],
    [err |-> FALSE, data |-> [NoData EXCEPT !.kind = "object", !.success = BoolFalse]],
    [err |-> FALSE, data |-> [NoData EXCEPT !.kind = "string"]] }
  \cup
  { [err |-> FALSE, data |-> GeoData(rc)] :
      rc \in {Str(PA), Str(<<"t","x">>), Str(NY), Undefined, Num42} }

NoHeader == Undefined

\* The addresses one request carries.
Requests ==
  { [xff |-> Str(ClientIp \o <<",", " ">> \o PrivateIp), realIp |-> NoHeader,
     remote |-> Str(Ipv4MappedPrefix \o PrivateIp)],
    [xff |-> NoHeader, realIp |-> NoHeader, remote |-> Str(Ipv4MappedPrefix \o PrivateIp)],
    [xff |-> NoHeader, realIp |-> Str(ClientIp6), remote |-> Str(<<":",":","1">>)],
    [xff |-> NoHeader, realIp |-> NoHeader, remote |-> NoHeader] }

Routes == {"/webhook", "/test-webhook"}

\* What the Google Sheets collaborator does when asked: getSheetsClient,
\* ensureSheetAndHeaders and appendRowToSheet each succeed or throw.
SheetsAnswers == [client : BOOLEAN, setup : BOOLEAN, append : BOOLEAN]

\* The keys of the six columns the server computes.
IpKeys ==
  {"ip_masked", "ip_source", "ip_region_code", "ip_region_name", "ip_zip", "ip_state_match"}

\* The keys a payload can carry beside them.
OtherKeys == {"xxTrustedFormToken", "xxTrustedFormCertUrl"}

\* The text of a key.
KeyText ==
  [ip_masked |-> <<"i","p","_","m","a","s","k","e","d">>, ip_source |-> <<"i","p","_","s","o","u","r","c","e">>,
   ip_region_code |-> <<"i","p","_","r","e","g","i","o","n","_","c","o","d","e">>, ip_region_name |-> <<"i","p","_","r","e","g","i","o","n","_","n","a","m","e">>,
   ip_zip |-> <<"i","p","_","z","i","p">>, ip_state_match |-> <<"i","p","_","s","t","a","t","e","_","m","a","t","c","h">>,
   xxTrustedFormToken |-> <<"x","x","T","r","u","s","t","e","d","F","o","r","m","T","o","k","e","n">>,
   xxTrustedFormCertUrl |-> <<"x","x","T","r","u","s","t","e","d","F","o","r","m","C","e","r","t","U","r","l">>]

\* The text of a source and of a match verdict.
TextOf ==
  [proxy |-> <<"p","r","o","x","y">>, client |-> <<"c","l","i","e","n","t">>, Yes |-> <<"Y","e","s">>, No |-> <<"N","o">>,
   Unknown |-> <<"U","n","k","n","o","w","n">>]

\* Payloads: none of the keys sent, and all six ip_* keys forged, one of
\* them as a boolean.
Payloads ==
  { [k \in IpKeys \cup OtherKeys |-> Undefined],
    [ip_masked |-> Str(ClientIp), ip_source |-> Str(<<"p","r","o","x","y">>),
     ip_region_code |-> Str(TX), ip_region_name |-> Str(<<"T","e","x","a","s">>),
     ip_zip |-> Str(<<"7","8","7","0","1">>), ip_state_match |-> BoolTrue,
     xxTrustedFormToken |-> Str(<<"t">>), xxTrustedFormCertUrl |-> Str(<<"c">>)] }

\* The spreadsheet as Google holds it: the sheet missing, there without a
\* header row, with another header row, with the header row of HEADERS.
RemoteSheets ==
  { [exists |-> "no", header |-> "none"],
    [exists |-> "yes", header |-> "none"],
    [exists |-> "yes", header |-> "other"],
    [exists |-> "yes", header |-> "ours"] }
\* ------------------------------------------------------------------------
\* Address texts: what an IPv4 and an IPv6 address is, and inputs of maskIP
\* ------------------------------------------------------------------------

DigitOrder == <<"0","1","2","3","4","5","6","7","8","9">>

DigitValue(c) == (CHOOSE i \in 1..10 : DigitOrder[i] = c) - 1

RECURSIVE DecimalValue(_)
DecimalValue(s) ==
  IF s = <<>> THEN 0
  ELSE DecimalValue(SubSeq(s, 1, Len(s) - 1)) * 10 + DigitValue(s[Len(s)])

\* Four decimal groups of one to three digits, each at most 255.
IsIPv4(s) ==
  LET parts == Split(s, ".")
  IN /\ Len(parts) = 4
     /\ \A i \in 1..4 :
          /\ Len(parts[i]) \in 1..3
          /\ AllDigits(parts[i])
          /\ DecimalValue(parts[i]) <= 255

HexDigits == Digits \cup {"a","b","c","d","e","f","A","B","C","D","E","F"}

IsHextet(h) == Len(h) \in 1..4 /\ \A i \in DOMAIN h : h[i] \in HexDigits

\* Position of the first "::" of s, 0 when s has none.
DoubleColonAt(s) ==
  IF \E i \in 1..(Len(s) - 1) : s[i] = ":" /\ s[i + 1] = ":"
  THEN SetMin({i \in 1..(Len(s) - 1) : s[i] = ":" /\ s[i + 1] = ":"})
  ELSE 0

GroupsOf(t) == IF t = <<>> THEN <<>> ELSE Split(t, ":")

\* The groups written before and after the "::" of a compressed address.
GroupsBefore(s) == GroupsOf(SubSeq(s, 1, DoubleColonAt(s) - 1))

GroupsAfter(s) == GroupsOf(SubSeq(s, DoubleColonAt(s) + 2, Len(s)))

\* Eight hextets written in full, or fewer with one "::" for a run of zeros.
IsIPv6(s) ==
  IF DoubleColonAt(s) = 0
  THEN /\ Len(Split(s, ":")) = 8
       /\ \A i \in 1..8 : IsHextet(Split(s, ":")[i])
  ELSE /\ \A i \in DOMAIN GroupsBefore(s) : IsHextet(GroupsBefore(s)[i])
       /\ \A i \in DOMAIN GroupsAfter(s) : IsHextet(GroupsAfter(s)[i])
       /\ Len(GroupsBefore(s)) + Len(GroupsAfter(s)) <= 7

\* The eight hextets of an IPv6 address, "::" written out as zeros.
HextetsOf(s) ==
  IF DoubleColonAt(s) = 0 THEN Split(s, ":")
  ELSE GroupsBefore(s)
         \o [i \in 1..(8 - Len(GroupsBefore(s)) - Len(GroupsAfter(s))) |-> <<"0">>]
         \o GroupsAfter(s)

\* The address text without an IPv4-mapped prefix and without a zone index.
Stripped(s) ==
  LET unmapped == IF StartsWith(s, Ipv4MappedPrefix) THEN SliceFrom(s, 7) ELSE s
  IN IF IndexOf(unmapped, "%") # -1
     THEN SubSeq(unmapped, 1, IndexOf(unmapped, "%"))
     ELSE unmapped

IsAddress(v) == v.t = "string" /\ (IsIPv4(Stripped(v.s)) \/ IsIPv6(Stripped(v.s)))

\* The /24 of an IPv4 address, the /64 of an IPv6 address.
NetworkOf(s) ==
  IF IsIPv4(s)
  THEN Join(SubSeq(Split(s, "."), 1, 3) \o << <<"0">> >>, ".") \o <<"/","2","4">>
  ELSE Join(SubSeq(HextetsOf(s), 1, 4), ":") \o <<":",":","/","6","4">>

\* Longest run of groups the inputs write before and after a "::".
MaxBefore == 4

MaxAfter == 2

MaskOctets == {<<"0">>, <<"7">>, <<"1","1","3">>, <<"2","5","5">>, <<"2","5","6">>}

V4Texts == {Join(<<a, b, c, d>>, ".") : a \in {<<"2","0","3">>, <<"1","0">>, <<"9","9","9">>}, b, c, d \in MaskOctets}

V6Full == {Join(g, ":") : g \in [1..8 -> {<<"2","0","0","1">>, <<"0">>}]}

GroupRuns(n) == UNION {[1..k -> {<<"f","e","8","0">>, <<"1">>}] : k \in 0..n}

V6Compressed ==
  {Join(l, ":") \o <<":",":">> \o Join(r, ":") : l \in GroupRuns(MaxBefore), r \in GroupRuns(MaxAfter)}

Zones == {<<>>, <<"%","e","t","h","0">>}

\* Texts that are no address.
NonAddresses ==
  { <<>>,
    <<"n","o","t","-","a","n","-","i","p">>,
    <<"n","o","t",":","a","n",":","i","p">>,
    <<"a",":","b">>,
    <<"1","2",":","3","0">>,
    <<":">>,
    <<":",":",":">>,
    <<"1",".","2",".","3">>,
    <<"1",".","2",".","3",".","4",".","5">>,
    <<"1",".","2",".","3",".","x">>,
    <<"1",".","2",".","3",".","4",":","8","0">>,
    <<"1",":",":","2",":",":","3">>,
    <<"g","0","0","1",":",":","1">>,
    <<"2","0","0","1",":","d","b","8",":","1",":","2",":","3",":","4",":","5",":","6",":","7">>,
    <<"1","2","3","4","5",":",":","1">>,
    <<":",":","F","F","F","F",":","2","0","3",".","0",".","1","1","3",".","7">> }

MaskInputs ==
  {Str(p \o a \o z) : p \in {<<>>, Ipv4MappedPrefix}, a \in V4Texts, z \in Zones}
    \cup {Str(a \o z) : a \in V6Full \cup V6Compressed \cup {ClientIp6}, z \in Zones}
    \cup {Str(a \o z) : a \in NonAddresses, z \in Zones}
    \cup NonStrings

\* ------------------------------------------------------------------------
\* Inputs of getProxyConfigForZip and of getTextViaHttpProxy on their own
\* ------------------------------------------------------------------------

\* process.env with each of the four PROXY_* values set or not.
ResolverEnvironments ==
  { [service |-> s, host |-> h, port |-> p, baseUser |-> u, pass |-> w] :
      s \in BOOLEAN,
      h \in {<<>>, <<"g","w">>}, p \in {<<>>, <<"8","2","3">>}, u \in {<<>>, <<"u">>}, w \in {<<>>, <<"p","w">>} }

\* A field of data.proxy: missing, empty, a string, a number.
ProxyFieldValues == {Undefined, Str(<<>>), Str(<<"s","v">>), Num42}

\* Answers of the credential service: an error or a timeout, or a body
\* whose proxy object has any mix of fields.
ResolverAnswers ==
  { [err |-> x, proxy |-> [host |-> h, port |-> p, user |-> u, pass |-> w]] :
      x \in BOOLEAN, h, p, u, w \in ProxyFieldValues }

ResolverZips == {<<"7","8","7","0","1">>, <<"1","9","1","0","3">>}

\* Targets handed to the tunnel client: the four the server uses, and
\* targets that are no plain-HTTP URL.
TunnelTargets ==
  Range(IpEchoTargets)
    \cup {GeoTarget, <<"h","t","t","p","s",":","/","/","i","p","w","h","o",".","i","s","/">>, <<"f","t","p",":","/","/","f","i","l","e","s",".","e","x","a","m","p","l","e","/","i","p">>, <<"n","o","t"," ","a"," ","u","r","l">>}

TunnelStatuses == {0, 100, 199, 200, 204, 299, 300, 301, 404, 407, 500, 502}

\* Responses the tunnel can give: status 0 is no response at all; a
\* response either arrives whole or its connection closes early.
TunnelResponses ==
  { [status |-> s, complete |-> c[1], ended |-> c[2], text |-> t] :
      s \in TunnelStatuses,
      c \in {<<TRUE, TRUE>>, <<FALSE, TRUE>>, <<FALSE, FALSE>>},
      t \in {<<>>, PublicIp, <<"{","\"","s","t","a","t","u","s","\"",":","\"","f","a","i","l","\"","}">>} }


\* Addresses handed to lookupIpGeo: none, public ones, the private ranges
\* of IPv4, loopback and link-local addresses, private IPv6, and a value
\* that is no string.
LookupInputs ==
  { Str(<<>>), Str(PublicIp), Str(ClientIp), Str(ClientIp6), Str(PrivateIp),
    Str(<<"1","9","2",".","1","6","8",".","1",".","2","0">>), Str(<<"1","7","2",".","1","6",".","0",".","1">>), Str(<<"1","7","2",".","3","1",".","2","5","5",".","1">>),
    Str(<<"1","7","2",".","3","2",".","0",".","1">>), Str(<<"1","7","2",".","1","5",".","0",".","1">>), Str(<<"1","2","7",".","0",".","0",".","1">>), Str(<<":",":","1">>),
    Str(<<"1","2","7",".","0",".","0",".","2">>), Str(<<"1","6","9",".","2","5","4",".","1","0",".","1">>), Str(<<"f","d","0","0",":",":","1">>), Str(<<"f","e","8","0",":",":","1">>),
    Str(<<"1","0","0",".","6","4",".","0",".","1">>), Str(<<"1","1",".","0",".","0",".","1">>), Num42 }
\* ------------------------------------------------------------------------
\* State
\* ------------------------------------------------------------------------

VARIABLES
  pc,            \* position of the run
  value,         \* cleanPayload.state, the argument of normalizeState
  inputState,    \* the {code, name} pair normalizeState returned
  code,          \* getProxyIpForState: code, the argument of pickZipsForState
  candidates,    \* the list pickZipsForState returned
  route,         \* the handler that runs the flow
  env,           \* process.env
  req,           \* the request's address headers, once getClientIP read them
  idx,           \* position of the candidate loop in candidates
  cfg,           \* the credential of the current candidate
  geoDirect,     \* what getGeoViaProxy returned for the current candidate
  echoIdx,       \* getIpViaProxy: position in IpEchoTargets
  ip,            \* what getIpViaProxy returned for the current candidate
  lookupTarget,  \* the address of the last ipwho.is URL
  proxyState,    \* getProxyIpForState: not called, running, returned, threw
  proxyResult,   \* what getProxyIpForState returned
  result,        \* ipSource, resolvedIp, ipRegionCode, ... of the handler
  cur,           \* external calls made for the current candidate
  tot,           \* plain lookups the handler itself made
  response,      \* what the handler sent
  sheets,        \* how the Google Sheets part of /webhook ended
  tried,         \* candidate positions getProxyConfigForZip was called for
  sheetReady,    \* the module's sheetReady flag
  rows,          \* the ip_* cells of the rows appended to the sheet
  logged,        \* the address texts written to the console
  world,         \* the stubbed answers of the external services, when fixed
  run,           \* number of the request being served
  outcomes,      \* how the earlier requests ended
  masked,        \* what maskIP(value) returned
  resolver,      \* one call of getProxyConfigForZip: zip, service answer, result
  tunnel,        \* one call of getTextViaHttpProxy: target, response, outcome
  looked,        \* one call of lookupIpGeo: address, provider answer, result
  payload,       \* req.body: the values the client sent under the keys read
  row,           \* the ip_* cells of the row the handler built
  answer,        \* the body of the response: success, sheets_error, ip_check
  sheet,         \* the spreadsheet at Google: the sheet 'fe' and its header row
  setups,        \* calls of ensureSheetAndHeaders the process made
  adds,          \* addSheet requests the process sent
  self,          \* the request being served
  parked         \* another request of the process, waiting at an await

fnVars == <<value, inputState, code, candidates>>

flowVars ==
  <<route, env, req, idx, cfg, geoDirect, echoIdx, ip, lookupTarget, proxyState,
    proxyResult, result, cur, tot, response, sheets, tried>>

\* State that outlives a request: the module's flag, the sheet, the console.
procVars == <<sheetReady, rows, logged>>

repeatVars == <<world, run, outcomes>>

applyVars == <<masked, resolver, tunnel, looked>>

rowVars == <<payload, row, answer>>

sheetVars == <<sheet, setups, adds>>

concVars == <<self, parked>>

vars ==
  <<pc, fnVars, flowVars, applyVars, procVars, repeatVars, rowVars, sheetVars, concVars>>

\* Per candidate: calls of the resolver, credentials it yielded, requests to
\* the credential service, tunnel requests (direct, echo), plain lookups.
NoCalls == [resolver |-> 0, cfgs |-> 0, cred |-> 0, direct |-> 0, echo |-> 0, lookup |-> 0]

NoTotals == [client |-> 0, validate |-> 0]

NoProxyResult ==
  [ok |-> FALSE, ip |-> <<>>, region_code |-> <<>>, region |-> Undefined,
   postal |-> Undefined, zip |-> <<>>, source |-> ""]

\* The handler's locals, lines 411-415, and the fields it attaches.
NoResult ==
  [done |-> FALSE, ipSource |-> "client", resolvedIp |-> Str(<<>>), ipRegionCode |-> <<>>,
   ipRegionName |-> Str(<<>>), ipPostal |-> Str(<<>>), ip_masked |-> <<>>,
   ip_state_match |-> ""]

NoRequest == [xff |-> NoHeader, realIp |-> NoHeader, remote |-> NoHeader]

NoResolverCall ==
  [zip |-> <<>>, svc |-> [err |-> TRUE, proxy |-> NoProxyData], requests |-> 0, cfg |-> NoCfg]

NoTunnelCall ==
  [targetUrl |-> <<>>, resp |-> [status |-> 0, complete |-> FALSE, ended |-> FALSE, text |-> <<>>],
   settled |-> [requests |-> 0, outcome |-> "none", data |-> <<>>]]

NoLookupCall ==
  [ip |-> Str(<<>>), resp |-> [err |-> TRUE, data |-> NoData], requests |-> 0,
   target |-> <<>>, threw |-> FALSE, geo |-> NoData]

ApplyIdle ==
  /\ masked = <<>>
  /\ resolver = NoResolverCall
  /\ tunnel = NoTunnelCall
  /\ looked = NoLookupCall

\* req.body not read yet, no row built, no response sent.
NoPayload == [unread |-> TRUE]

NoRow == [k \in IpKeys |-> <<>>]

NoAnswer == [success |-> FALSE, sheets_error |-> "null", ip_check |-> FALSE]

\* No other request is being served.
NoParked == [present |-> FALSE]

FlowIdle ==
  /\ idx = 0
  /\ cfg = NoCfg
  /\ geoDirect = NoGeo
  /\ echoIdx = 0
  /\ ip = <<>>
  /\ lookupTarget = <<>>
  /\ proxyState = "notcalled"
  /\ proxyResult = NoProxyResult
  /\ result = NoResult
  /\ cur = NoCalls
  /\ tot = NoTotals
  /\ response = "none"
  /\ sheets = "none"
  /\ tried = <<>>
  /\ payload = NoPayload
  /\ row = NoRow
  /\ answer = NoAnswer

\* The spreadsheet before the process looked at it.
Unobserved == [exists |-> "unknown", header |-> "unknown"]

\* The process has just started: line 332, an untouched sheet and console.
ProcessIdle ==
  /\ sheetReady = FALSE
  /\ rows = <<>>
  /\ logged = {}
  /\ sheet = Unobserved
  /\ setups = 0
  /\ adds = 0


\* The external services answer freely, call by call.
NoWorld == [fixed |-> FALSE]

SingleRequest ==
  /\ world = NoWorld
  /\ run = 1
  /\ self = 1
  /\ parked = NoParked
  /\ outcomes = <<>>

\* ------------------------------------------------------------------------
\* The region normalizer and the candidate selector on their own
\* ------------------------------------------------------------------------

NoEnvironment ==
  [service |-> FALSE, host |-> <<>>, port |-> <<>>, baseUser |-> <<>>, pass |-> <<>>]

FnInit ==
  /\ inputState = EmptyPair
  /\ candidates = <<>>
  /\ route = "none"
  /\ req = NoRequest
  /\ FlowIdle
  /\ ProcessIdle
  /\ SingleRequest
  /\ masked = <<>>
  /\ \/ /\ pc = "normalize"
        /\ value \in NormalizeInputs
        /\ code = <<>>
        /\ env = NoEnvironment
        /\ resolver = NoResolverCall
        /\ tunnel = NoTunnelCall
        /\ looked = NoLookupCall
     \/ /\ pc = "pick"
        /\ value = Undefined
        /\ code \in CodeInputs
        /\ env = NoEnvironment
        /\ resolver = NoResolverCall
        /\ tunnel = NoTunnelCall
        /\ looked = NoLookupCall
     \/ /\ pc = "mask"
        /\ value \in MaskInputs
        /\ code = <<>>
        /\ env = NoEnvironment
        /\ resolver = NoResolverCall
        /\ tunnel = NoTunnelCall
        /\ looked = NoLookupCall
     \/ /\ pc = "resolve"
        /\ value = Undefined
        /\ code = <<>>
        /\ env \in ResolverEnvironments
        /\ \E z \in ResolverZips, a \in ResolverAnswers :
             resolver = [NoResolverCall EXCEPT !.zip = z, !.svc = a]
        /\ tunnel = NoTunnelCall
        /\ looked = NoLookupCall
     \/ /\ pc = "tunnel"
        /\ value = Undefined
        /\ code = <<>>
        /\ env = NoEnvironment
        /\ resolver = NoResolverCall
        /\ \E u \in TunnelTargets, r \in TunnelResponses :
             tunnel = [NoTunnelCall EXCEPT !.targetUrl = u, !.resp = r]
        /\ looked = NoLookupCall
     \/ /\ pc = "lookup"
        /\ value = Undefined
        /\ code = <<>>
        /\ env = NoEnvironment
        /\ resolver = NoResolverCall
        /\ tunnel = NoTunnelCall
        /\ \E a \in LookupInputs, r \in PlainResponses :
             looked = [NoLookupCall EXCEPT !.ip = a, !.resp = r]

ApplyNormalize ==
  /\ pc = "normalize"
  /\ inputState' = normalizeState(value)
  /\ pc' = "normalized"
  /\ UNCHANGED <<value, code, candidates, flowVars, applyVars, procVars, repeatVars, rowVars,
                 sheetVars, concVars>>

\* getProxyIpForState, lines 302-303, for a string code: upper-case it and
\* go on to the candidate selector when it is not empty.
PassCode ==
  /\ pc = "normalized"
  /\ inputState.code.t = "string"
  /\ inputState.code.s # <<>>
  /\ code' = ToUpperCase(inputState.code.s)
  /\ pc' = "pick"
  /\ UNCHANGED <<value, inputState, candidates, flowVars, applyVars, procVars, repeatVars, rowVars,
                 sheetVars, concVars>>

ApplyPick ==
  /\ pc = "pick"
  /\ candidates' = pickZipsForState(code)
  /\ pc' = "picked"
  /\ UNCHANGED <<value, inputState, code, flowVars, applyVars, procVars, repeatVars, rowVars,
                 sheetVars, concVars>>

\* maskIP(value), as lines 440, 514, 590 and 619 call it.
ApplyMask ==
  /\ pc = "mask"
  /\ masked' = maskIP(value)
  /\ pc' = "masked"
  /\ UNCHANGED <<fnVars, flowVars, resolver, tunnel, looked, procVars, repeatVars, rowVars,
                 sheetVars, concVars>>

\* getProxyConfigForZip(zip) with the environment in env; the credential
\* service answers resolver.svc when it is asked.
ApplyResolver ==
  /\ pc = "resolve"
  /\ resolver' = [resolver EXCEPT !.requests = ServiceRequests(env),
                                  !.cfg = getProxyConfigForZip(env, resolver.zip, resolver.svc)]
  /\ pc' = "resolved"
  /\ UNCHANGED <<fnVars, flowVars, masked, tunnel, looked, procVars, repeatVars, rowVars,
                 sheetVars, concVars>>

\* getTextViaHttpProxy(proxy, targetUrl) with the tunnel answering
\* tunnel.resp.
ApplyTunnel ==
  /\ pc = "tunnel"
  /\ tunnel' = [tunnel EXCEPT !.settled = getTextViaHttpProxy(tunnel.targetUrl, tunnel.resp)]
  /\ pc' = "settled"
  /\ UNCHANGED <<fnVars, flowVars, masked, resolver, looked, procVars, repeatVars, rowVars,
                 sheetVars, concVars>>

\* lookupIpGeo(ip) with ipwho.is answering looked.resp. The whole body is
\* inside try/catch: isPrivateIP calling startsWith on a truthy value that
\* is no string throws before any request and the catch returns null.
ApplyLookup ==
  /\ pc = "lookup"
  /\ looked' =
       IF Truthy(looked.ip) /\ looked.ip.t # "string"
       THEN [looked EXCEPT !.geo = NoData]
       ELSE [looked EXCEPT !.requests = 1, !.target = LookupTarget(looked.ip.s),
                           !.geo = lookupIpGeo(looked.resp)]
  /\ pc' = "looked"
  /\ UNCHANGED <<fnVars, flowVars, masked, resolver, tunnel, procVars, repeatVars, rowVars,
                 sheetVars, concVars>>

FnNext ==
  \/ ApplyNormalize
  \/ PassCode
  \/ ApplyPick
  \/ ApplyMask
  \/ ApplyResolver
  \/ ApplyTunnel
  \/ ApplyLookup

FnSpec == FnInit /\ [][FnNext]_vars

\* ------------------------------------------------------------------------
\* The verification flow of POST /webhook and POST /test-webhook
\* ------------------------------------------------------------------------

Init ==
  /\ pc = "start"
  /\ value \in FlowInputs
  /\ route \in Routes
  /\ env \in Environments
  /\ req = NoRequest
  /\ inputState = EmptyPair
  /\ code = <<>>
  /\ candidates = <<>>
  /\ FlowIdle
  /\ ApplyIdle
  /\ ProcessIdle
  /\ SingleRequest

\* The answers an external service can give to the next call: any of S, or
\* the one answer of a fixed world.
StubSet(service, S) == IF world.fixed THEN {world[service]} ELSE S

\* The handler up to the first await: normalizeState (lines 410, 564), then
\* getProxyIpForState up to its loop (lines 302-304). toUpperCase is called
\* on stateObj.code || '', which throws a TypeError when that is no string.
Begin ==
  /\ pc = "start"
  /\ LET st == normalizeState(value)
         c == JsOr(st.code, Str(<<>>))
     IN /\ inputState' = st
        /\ IF c.t # "string"
           THEN /\ pc' = "raised"
                /\ proxyState' = "threw"
                /\ UNCHANGED <<code, candidates, idx>>
           ELSE IF ToUpperCase(c.s) = <<>>
           THEN /\ pc' = "decide"
                /\ proxyState' = "returned"
                /\ code' = <<>>
                /\ UNCHANGED <<candidates, idx>>
           ELSE /\ pc' = "loop"
                /\ proxyState' = "running"
                /\ code' = ToUpperCase(c.s)
                /\ candidates' = pickZipsForState(ToUpperCase(c.s))
                /\ idx' = 1
  /\ UNCHANGED <<applyVars, procVars, repeatVars, rowVars, sheetVars, concVars, value, route, env, req, cfg, geoDirect,
                 echoIdx, ip, lookupTarget, proxyResult, result, cur, tot, response,
                 sheets, tried>>

\* A loop that leaves out every second candidate.
NextCandidate_skipsOne ==
  /\ idx' = idx + 2
  /\ cfg' = NoCfg
  /\ geoDirect' = NoGeo
  /\ echoIdx' = 0
  /\ ip' = <<>>
  /\ lookupTarget' = <<>>
  /\ pc' = "loop"

\* `continue`, or the end of the loop body: the next candidate, with the
\* block's constants gone.
NextCandidate ==
  /\ idx' = idx + 1
  /\ cfg' = NoCfg
  /\ geoDirect' = NoGeo
  /\ echoIdx' = 0
  /\ ip' = <<>>
  /\ lookupTarget' = <<>>
  /\ pc' = "loop"

\* Lines 328-329: the candidates are used up, getProxyIpForState returns null.
Exhausted ==
  /\ pc = "loop"
  /\ idx > Len(candidates)
  /\ proxyState' = "returned"
  /\ pc' = "decide"
  /\ UNCHANGED <<applyVars, procVars, repeatVars, rowVars, sheetVars, concVars, fnVars, route, env, req, idx, cfg,
                 geoDirect, echoIdx, ip, lookupTarget, proxyResult, result, cur, tot,
                 response, sheets, tried>>

\* No request is made to the credential service.
NoServiceCall == [err |-> TRUE, proxy |-> NoProxyData]

\* A loop that goes on to the tunnel without a credential.
ResolveCredential_goesOnWithout ==
  /\ pc = "loop"
  /\ idx <= Len(candidates)
  /\ \E svc \in IF env.service THEN StubSet("svc", ServiceResponses) ELSE {NoServiceCall} :
       LET c == getProxyConfigForZip(env, candidates[idx], svc)
           n == ServiceRequests(env)
       IN /\ cfg' = c
          /\ cur' = [NoCalls EXCEPT !.resolver = 1, !.cfgs = IF c.ok THEN 1 ELSE 0,
                                    !.cred = n]
          /\ pc' = "direct"
          /\ UNCHANGED <<idx, geoDirect, echoIdx, ip, lookupTarget>>
  /\ tried' = Append(tried, idx)
  /\ UNCHANGED <<applyVars, procVars, repeatVars, rowVars, sheetVars, concVars, fnVars, route, env, req, proxyState,
                 proxyResult, result, tot, response, sheets>>

\* Lines 305-307: getProxyConfigForZip for the candidate at idx.
ResolveCredential ==
  /\ pc = "loop"
  /\ idx <= Len(candidates)
  /\ \E svc \in IF env.service THEN StubSet("svc", ServiceResponses) ELSE {NoServiceCall} :
       LET c == getProxyConfigForZip(env, candidates[idx], svc)
           n == ServiceRequests(env)
       IN /\ IF c.ok
             THEN /\ cfg' = c
                  /\ cur' = [NoCalls EXCEPT !.resolver = 1, !.cfgs = 1, !.cred = n]
                  /\ pc' = "direct"
                  /\ UNCHANGED <<idx, geoDirect, echoIdx, ip, lookupTarget>>
             ELSE /\ NextCandidate
                  /\ cur' = [NoCalls EXCEPT !.resolver = 1, !.cred = n]
  /\ tried' = Append(tried, idx)
  /\ UNCHANGED <<applyVars, procVars, repeatVars, rowVars, sheetVars, concVars, fnVars, route, env, req, proxyState,
                 proxyResult, result, tot, response, sheets>>

\* Lines 310-314: getGeoViaProxy(cfg), one tunnel request. Line 312 writes
\* the address of a matching answer to the console.
DirectGeo ==
  /\ pc = "direct"
  /\ \E resp \in StubSet("direct", DirectResponses) :
       LET g == getGeoViaProxy(resp)
       IN IF GeoCall(resp).outcome = "pending"
          THEN /\ pc' = "hung"
               /\ UNCHANGED <<geoDirect, echoIdx, proxyResult, proxyState, logged>>
          ELSE /\ geoDirect' = g
               /\ IF g.ok /\ g.region_code = code
                  THEN /\ proxyResult' =
                            [ok |-> TRUE, ip |-> g.ip, region_code |-> g.region_code,
                             region |-> Str(g.region), postal |-> Str(g.postal),
                             zip |-> candidates[idx], source |-> "proxy"]
                       /\ proxyState' = "returned"
                       /\ pc' = "decide"
                       /\ echoIdx' = echoIdx
                       /\ logged' = logged \cup {g.ip}
                  ELSE /\ pc' = "echo"
                       /\ echoIdx' = 1
                       /\ UNCHANGED <<proxyResult, proxyState, logged>>
  /\ cur' = [cur EXCEPT !.direct = @ + 1]
  /\ UNCHANGED <<applyVars, sheetReady, rows, repeatVars, rowVars, sheetVars, concVars, fnVars, route, env, req, idx,
                 cfg, ip, lookupTarget, result, tot, response, sheets, tried>>

\* Lines 316-317 and getIpViaProxy: one tunnel request to the echo endpoint
\* at echoIdx; the first accepted body, trimmed, is the address.
EchoIp ==
  /\ pc = "echo"
  /\ \E resp \in StubSet("echo", EchoResponses) :
       IF getTextViaHttpProxy(IpEchoTargets[echoIdx], resp).outcome = "pending"
       THEN /\ pc' = "hung"
            /\ UNCHANGED <<idx, cfg, geoDirect, echoIdx, ip, lookupTarget>>
       ELSE IF EchoAccepts(IpEchoTargets[echoIdx], resp)
       THEN /\ ip' = Trim(resp.text)
            /\ pc' = "lookup"
            /\ UNCHANGED <<idx, cfg, geoDirect, echoIdx, lookupTarget>>
       ELSE IF echoIdx < Len(IpEchoTargets)
       THEN /\ echoIdx' = echoIdx + 1
            /\ UNCHANGED <<pc, idx, cfg, geoDirect, ip, lookupTarget>>
       ELSE NextCandidate
  /\ cur' = [cur EXCEPT !.echo = @ + 1]
  /\ UNCHANGED <<applyVars, procVars, repeatVars, rowVars, sheetVars, concVars, fnVars, route, env, req, proxyState,
                 proxyResult, result, tot, response, sheets, tried>>

\* Lines 318-326: lookupIpGeo(ip) and the comparison with the claimed code.
\* Line 323 writes the address of a matching candidate to the console.
LookupDiscovered ==
  /\ pc = "lookup"
  /\ \E resp \in StubSet("lookup", PlainResponses) :
       LET geo == lookupIpGeo(resp)
           rc == JsOr(geo.region_code, Str(<<>>))
       IN IF rc.t # "string"
          THEN /\ pc' = "raised"
               /\ proxyState' = "threw"
               /\ UNCHANGED <<idx, cfg, geoDirect, echoIdx, ip, proxyResult, logged>>
               /\ lookupTarget' = LookupTarget(ip)
          ELSE IF ToUpperCase(rc.s) # <<>> /\ ToUpperCase(rc.s) = code
          THEN /\ proxyResult' =
                    [ok |-> TRUE, ip |-> ip, region_code |-> ToUpperCase(rc.s),
                     region |-> JsOr(geo.region, Str(<<>>)),
                     postal |-> JsOr(geo.postal, Str(<<>>)),
                     zip |-> candidates[idx], source |-> "proxy"]
               /\ proxyState' = "returned"
               /\ pc' = "decide"
               /\ UNCHANGED <<idx, cfg, geoDirect, echoIdx, ip>>
               /\ lookupTarget' = LookupTarget(ip)
               /\ logged' = logged \cup {ip}
          ELSE /\ NextCandidate
               /\ UNCHANGED <<proxyState, proxyResult, logged>>
  /\ cur' = [cur EXCEPT !.lookup = @ + 1]
  /\ UNCHANGED <<applyVars, sheetReady, rows, repeatVars, rowVars, sheetVars, concVars, fnVars, route, env, req, result,
                 tot, response, sheets, tried>>

\* Lines 437-445: the match verdict and the masked address.
Verdict(source, resolved, regionCode, regionName, postal) ==
  [done |-> TRUE, ipSource |-> source, resolvedIp |-> resolved, ipRegionCode |-> regionCode,
   ipRegionName |-> regionName, ipPostal |-> postal, ip_masked |-> maskIP(resolved),
   ip_state_match |-> ip_state_match(stateMatch(inputState.code, regionCode))]

\* Variant: the proxy's answer is used only while no row has been appended.
UsesProxy_whileNoRow == proxyResult.ok /\ proxyResult.ip # <<>> /\ rows = <<>>

\* The proxy result taken only until the sheet has been set up.
UsesProxy_untilSheetReady == proxyResult.ok /\ proxyResult.ip # <<>> /\ ~sheetReady

\* Line 419
UsesProxy == proxyResult.ok /\ proxyResult.ip # <<>>

\* Lines 419-426: the proxy result is taken and confirmed by lookupIpGeo.
Validate ==
  /\ pc = "decide"
  /\ UsesProxy
  /\ \E resp \in StubSet("lookup", PlainResponses) :
       LET ipGeo == lookupIpGeo(resp)
           rc == JsOr(JsOr(ipGeo.region_code, Str(proxyResult.region_code)), Str(<<>>))
       IN IF rc.t # "string"
          THEN /\ pc' = "raised"
               /\ result' = [result EXCEPT !.ipSource = "proxy",
                                           !.resolvedIp = Str(proxyResult.ip)]
          ELSE /\ pc' = "verified"
               /\ result' = Verdict("proxy", Str(proxyResult.ip), ToUpperCase(rc.s),
                                    JsOr(ipGeo.region, Str(<<>>)),
                                    JsOr(JsOr(ipGeo.postal, Str(proxyResult.zip)), Str(<<>>)))
  /\ lookupTarget' = LookupTarget(proxyResult.ip)
  /\ tot' = [tot EXCEPT !.validate = @ + 1]
  /\ UNCHANGED <<applyVars, procVars, repeatVars, rowVars, sheetVars, concVars, fnVars, route, env, req, idx, cfg,
                 geoDirect, echoIdx, ip, proxyState, proxyResult, cur, response, sheets,
                 tried>>

\* Lines 427-435: the plain lookup of the caller's own address.
Fallback ==
  /\ pc = "decide"
  /\ ~UsesProxy
  /\ \E rq \in StubSet("rq", Requests), resp \in StubSet("lookup", PlainResponses) :
       LET clientIp == getClientIP(rq)
           ipGeo == lookupIpGeo(resp)
           resolved == JsOr(JsOr(ipGeo.ip, Str(clientIp)), Str(<<>>))
           rc == JsOr(ipGeo.region_code, Str(<<>>))
       IN /\ req' = rq
          /\ lookupTarget' = LookupTarget(clientIp)
          /\ IF rc.t # "string"
             THEN /\ pc' = "raised"
                  /\ result' = [result EXCEPT !.resolvedIp = resolved]
             ELSE /\ pc' = "verified"
                  /\ result' = Verdict("client", resolved, ToUpperCase(rc.s),
                                       JsOr(ipGeo.region, Str(<<>>)),
                                       JsOr(ipGeo.postal, Str(<<>>)))
  /\ tot' = [tot EXCEPT !.client = @ + 1]
  /\ UNCHANGED <<applyVars, procVars, repeatVars, rowVars, sheetVars, concVars, fnVars, route, env, idx, cfg, geoDirect,
                 echoIdx, ip, proxyState, proxyResult, cur, response, sheets, tried>>

\* Lines 401-406: the payload without the xxTrustedForm* keys other than
\* xxTrustedFormCertUrl.
cleanPayload(p) ==
  [k \in DOMAIN p |->
     IF StartsWith(KeyText[k], <<"x","x","T","r","u","s","t","e","d","F","o","r","m">>) /\ KeyText[k] # <<"x","x","T","r","u","s","t","e","d","F","o","r","m","C","e","r","t","U","r","l">>
     THEN Undefined
     ELSE p[k]]

\* The values lines 440-445 compute from the handler's locals.
ServerValues(res) ==
  [ip_masked |-> Str(res.ip_masked), ip_source |-> Str(TextOf[res.ipSource]),
   ip_region_code |-> Str(res.ipRegionCode), ip_region_name |-> res.ipRegionName,
   ip_zip |-> res.ipPostal, ip_state_match |-> Str(TextOf[res.ip_state_match])]

\* An attachment that keeps what the client sent under the key.
Attach_keepsSupplied(cp, res) ==
  [k \in DOMAIN cp |-> IF k \in IpKeys /\ ~Truthy(cp[k]) THEN ServerValues(res)[k] ELSE cp[k]]

\* Lines 440-445: cleanPayload.ip_masked = ..., and the five other keys.
Attach(cp, res) ==
  [k \in DOMAIN cp |-> IF k \in IpKeys THEN ServerValues(res)[k] ELSE cp[k]]

\* Lines 464-466: a cell of the row.
Cell(v) ==
  IF v.t = "boolean" THEN (IF Truthy(v) THEN <<"Y","e","s">> ELSE <<"N","o">>)
  ELSE IF v.t \in {"null", "undefined"} THEN <<>>
  ELSE v.s

\* The ip_* cells of the row, lines 450-467 and 597-612.
Row(p, res) == [k \in IpKeys |-> Cell(Attach(cleanPayload(p), res)[k])]

\* req.body is read once per request.
ReadPayload == IF payload = NoPayload THEN Payloads ELSE {payload}

\* Did the Google API call succeed? part is "client", "setup" or "append".
SheetsOk(part) == IF world.fixed THEN {world.sheets[part]} ELSE BOOLEAN

\* The spreadsheet as the first request to Google finds it.
Observed == IF sheet = Unobserved THEN RemoteSheets ELSE {sheet}

\* Lines 496-522: the Google Sheets part is over, with the row appended or
\* with the error caught at line 496, and res.json sends the response.
Finish(outcome) ==
  /\ sheets' = outcome
  /\ response' = "ip_check"
  /\ answer' = [success |-> outcome = "appended",
                sheets_error |-> IF outcome = "appended" THEN "null" ELSE "message",
                ip_check |-> TRUE]
  /\ pc' = "done"

\* Lines 439-481: the ip_* values are attached, the row is built and
\* written to the console, and getSheetsClient is called.
BuildRow ==
  /\ pc = "verified"
  /\ route = "/webhook"
  /\ \E p \in ReadPayload :
       /\ payload' = p
       /\ row' = Row(p, result)
  /\ logged' = logged \cup {result.ip_masked}
  /\ pc' = "client"
  /\ UNCHANGED <<applyVars, repeatVars, sheetVars, concVars, fnVars, route, env, req, idx,
                 cfg, geoDirect, echoIdx, ip, lookupTarget, proxyState, proxyResult,
                 result, cur, tot, tried, response, sheets, answer, sheetReady, rows>>

\* A client step that raises the flag before the set-up is awaited.
SheetsClient_flagFirst ==
  /\ pc = "client"
  /\ \E ok \in SheetsOk("client") :
       IF ~ok
       THEN Finish("client_error") /\ UNCHANGED <<setups, sheetReady>>
       ELSE IF ~sheetReady
       THEN /\ pc' = "find"
            /\ setups' = setups + 1
            /\ sheetReady' = TRUE
            /\ UNCHANGED <<sheets, response, answer>>
       ELSE /\ pc' = "append"
            /\ UNCHANGED <<sheets, response, answer, setups, sheetReady>>
  /\ UNCHANGED <<applyVars, repeatVars, concVars, fnVars, route, env, req, idx, cfg,
                 geoDirect, echoIdx, ip, lookupTarget, proxyState, proxyResult, result,
                 cur, tot, tried, payload, row, rows, logged, sheet, adds>>

\* Lines 481-486 and 491-492: getSheetsClient has settled; sheetReady is
\* read, and either ensureSheetAndHeaders begins with the spreadsheets.get
\* of findSheetByTitle or appendRowToSheet is called.
SheetsClient ==
  /\ pc = "client"
  /\ \E ok \in SheetsOk("client") :
       IF ~ok
       THEN Finish("client_error") /\ UNCHANGED setups
       ELSE IF ~sheetReady
       THEN /\ pc' = "find"
            /\ setups' = setups + 1
            /\ UNCHANGED <<sheets, response, answer>>
       ELSE /\ pc' = "append"
            /\ UNCHANGED <<sheets, response, answer, setups>>
  /\ UNCHANGED <<applyVars, procVars, repeatVars, concVars, fnVars, route, env, req, idx,
                 cfg, geoDirect, echoIdx, ip, lookupTarget, proxyState, proxyResult,
                 result, cur, tot, tried, payload, row, sheet, adds>>

\* createSheetIfMissing up to its batchUpdate: the sheet is looked for by
\* title; a missing sheet is asked for with addSheet, an existing one
\* leads to the values.get of ensureHeaderRow.
FindSheet ==
  /\ pc = "find"
  /\ \E ok \in SheetsOk("setup"), s \in Observed :
       IF ~ok
       THEN Finish("setup_error") /\ UNCHANGED <<sheet, adds>>
       ELSE /\ sheet' = s
            /\ IF s.exists = "yes"
               THEN pc' = "header" /\ adds' = adds
               ELSE pc' = "add" /\ adds' = adds + 1
            /\ UNCHANGED <<sheets, response, answer>>
  /\ UNCHANGED <<applyVars, procVars, repeatVars, concVars, fnVars, route, env, req, idx,
                 cfg, geoDirect, echoIdx, ip, lookupTarget, proxyState, proxyResult,
                 result, cur, tot, tried, payload, row, setups>>

\* The addSheet request has settled: Google refuses a title that exists,
\* otherwise the sheet is there without a header row, and ensureHeaderRow
\* reads row 1.
AddSheet ==
  /\ pc = "add"
  /\ \E ok \in SheetsOk("setup") :
       IF sheet.exists = "yes"
       THEN Finish("setup_conflict") /\ UNCHANGED sheet
       ELSE IF ~ok
       THEN Finish("setup_error") /\ UNCHANGED sheet
       ELSE /\ sheet' = [exists |-> "yes", header |-> "none"]
            /\ pc' = "header"
            /\ UNCHANGED <<sheets, response, answer>>
  /\ UNCHANGED <<applyVars, procVars, repeatVars, concVars, fnVars, route, env, req, idx,
                 cfg, geoDirect, echoIdx, ip, lookupTarget, proxyState, proxyResult,
                 result, cur, tot, tried, payload, row, setups, adds>>

\* ensureHeaderRow after its values.get: a header row equal to HEADERS ends
\* the set-up, sheetReady becomes true and the append is called; a missing
\* or different one is written with values.update.
HeaderGet ==
  /\ pc = "header"
  /\ \E ok \in SheetsOk("setup") :
       IF ~ok
       THEN Finish("setup_error") /\ UNCHANGED sheetReady
       ELSE IF sheet.header = "ours"
       THEN /\ sheetReady' = TRUE
            /\ pc' = "append"
            /\ UNCHANGED <<sheets, response, answer>>
       ELSE /\ pc' = "update"
            /\ UNCHANGED <<sheets, response, answer, sheetReady>>
  /\ UNCHANGED <<applyVars, repeatVars, sheetVars, concVars, fnVars, route, env, req, idx,
                 cfg, geoDirect, echoIdx, ip, lookupTarget, proxyState, proxyResult,
                 result, cur, tot, tried, payload, row, rows, logged>>

\* The values.update of the header row has settled: the set-up is over,
\* sheetReady becomes true (line 487) and the append is called.
HeaderUpdate ==
  /\ pc = "update"
  /\ \E ok \in SheetsOk("setup") :
       IF ~ok
       THEN Finish("setup_error") /\ UNCHANGED <<sheetReady, sheet>>
       ELSE /\ sheet' = [sheet EXCEPT !.header = "ours"]
            /\ sheetReady' = TRUE
            /\ pc' = "append"
            /\ UNCHANGED <<sheets, response, answer>>
  /\ UNCHANGED <<applyVars, repeatVars, concVars, fnVars, route, env, req, idx, cfg,
                 geoDirect, echoIdx, ip, lookupTarget, proxyState, proxyResult, result,
                 cur, tot, tried, payload, row, rows, logged, setups, adds>>

\* Lines 492-495: values.append has settled.
AppendRow ==
  /\ pc = "append"
  /\ \E ok \in SheetsOk("append") :
       IF ok
       THEN Finish("appended") /\ rows' = Append(rows, row)
       ELSE Finish("append_error") /\ rows' = rows
  /\ UNCHANGED <<applyVars, repeatVars, sheetVars, concVars, fnVars, route, env, req, idx,
                 cfg, geoDirect, echoIdx, ip, lookupTarget, proxyState, proxyResult,
                 result, cur, tot, tried, payload, row, sheetReady, logged>>

\* Lines 590-628: /test-webhook attaches the ip_* values, builds the row
\* and sends it with ip_check; nothing goes to Google Sheets.
Respond ==
  /\ pc = "verified"
  /\ route = "/test-webhook"
  /\ \E p \in ReadPayload :
       /\ payload' = p
       /\ row' = Row(p, result)
  /\ response' = "ip_check"
  /\ answer' = [NoAnswer EXCEPT !.ip_check = TRUE]
  /\ pc' = "done"
  /\ UNCHANGED <<applyVars, procVars, repeatVars, sheetVars, concVars, fnVars, route, env,
                 req, idx, cfg, geoDirect, echoIdx, ip, lookupTarget, proxyState,
                 proxyResult, result, cur, tot, tried, sheets>>

\* Lines 524-548: /webhook catches what the flow threw and answers 500
\* without ip_check.
WebhookCatch ==
  /\ pc = "raised"
  /\ route = "/webhook"
  /\ response' = "error"
  /\ answer' = [success |-> FALSE, sheets_error |-> "message", ip_check |-> FALSE]
  /\ pc' = "failed"
  /\ UNCHANGED <<applyVars, procVars, repeatVars, payload, row, sheetVars, concVars, fnVars, route, env, req, idx, cfg,
                 geoDirect, echoIdx, ip, lookupTarget, proxyState, proxyResult, result,
                 cur, tot, sheets, tried>>

\* Line 552: /test-webhook has no try/catch; the async handler's promise
\* is rejected and no response is sent.
TestWebhookRejects ==
  /\ pc = "raised"
  /\ route = "/test-webhook"
  /\ pc' = "rejected"
  /\ UNCHANGED <<applyVars, procVars, repeatVars, rowVars, sheetVars, concVars, fnVars, route, env, req, idx, cfg,
                 geoDirect, echoIdx, ip, lookupTarget, proxyState, proxyResult, result,
                 cur, tot, response, sheets, tried>>

Next ==
  \/ Begin
  \/ Exhausted
  \/ ResolveCredential
  \/ DirectGeo
  \/ EchoIp
  \/ LookupDiscovered
  \/ Validate
  \/ Fallback
  \/ BuildRow
  \/ SheetsClient
  \/ FindSheet
  \/ AddSheet
  \/ HeaderGet
  \/ HeaderUpdate
  \/ AppendRow
  \/ Respond
  \/ WebhookCatch
  \/ TestWebhookRejects

Spec == Init /\ [][Next]_vars

\* ------------------------------------------------------------------------
\* Claims about the region normalizer and the candidate selector (FnSpec)
\* ------------------------------------------------------------------------

Normalized == pc \in {"normalized", "pick", "picked"} /\ value # Undefined

\* C6: for every region code c, normalizeState of any spelling of c (any
\* letter case, white space before and after) and normalizeState of any
\* spelling of the full name of c return the same non-empty {code, name}
\* pair.
C6_CodeAndNameNormalizeAlike ==
  Normalized /\ value.t = "string" =>
    \A c \in Codes :
      /\ value.s \in CodeSpellings[c] =>
           /\ inputState = normalizeState(Str(NameOf(c)))
           /\ inputState = [code |-> Str(c), name |-> Str(NameOf(c))]
      /\ value.s \in NameSpellings[c] =>
           /\ inputState = normalizeState(Str(c))
           /\ inputState = [code |-> Str(c), name |-> Str(NameOf(c))]

C6_Witness ==
  /\ pc = "normalized"
  /\ value = Str(<<" ","p","E","n","N","s","Y","l","V","a","N","i","A","\t">>)
  /\ inputState = normalizeState(Str(<<"P","A">>))
  /\ inputState.code = Str(<<"P","A">>)

\* After trimming and ignoring case, exactly a known code or a known name.
LowerRegionTexts ==
  {ToLowerCase(c) : c \in Codes} \cup {ToLowerCase(NameOf(c)) : c \in Codes}

IsRegionText(v) == v.t = "string" /\ ToLowerCase(Trim(v.s)) \in LowerRegionTexts

\* C7: every input that is not, after trimming and ignoring case, exactly a
\* known two-letter code or a known full region name (any other string, or
\* a value that is no string) gets the empty pair {code: '', name: ''}.
C7_UnrecognizedGivesEmptyPair ==
  Normalized /\ ~IsRegionText(value) => inputState = EmptyPair

TablesAreBijection ==
  /\ \A i, j \in DOMAIN STATE_CODE_TO_NAME :
       /\ STATE_CODE_TO_NAME[i][1] = STATE_CODE_TO_NAME[j][1] => i = j
       /\ ToLowerCase(STATE_CODE_TO_NAME[i][2]) = ToLowerCase(STATE_CODE_TO_NAME[j][2])
            => i = j
  /\ \A i \in DOMAIN STATE_CODE_TO_NAME :
       ObjGet(STATE_NAME_TO_CODE, ToLowerCase(STATE_CODE_TO_NAME[i][2]))
         = Str(STATE_CODE_TO_NAME[i][1])

LowerNameOf == [c \in Codes |-> ToLowerCase(NameOf(c))]

\* C8: the region tables form a bijection: no code is listed twice, no two
\* codes share a name (compared ignoring case), and STATE_NAME_TO_CODE maps
\* each lower-cased name back to the code it came from, so that a full name
\* in any letter case is normalized to its own code.
C8_TablesAreBijection ==
  /\ TablesAreBijection
  /\ Normalized /\ value.t = "string" =>
       \A c \in Codes :
         ToLowerCase(Trim(value.s)) = LowerNameOf[c] => inputState.code = Str(c)

C8_Witness ==
  /\ pc = "normalized"
  /\ value = Str(<<"n","e","w"," ","y","o","r","k">>)
  /\ inputState.code = Str(<<"N","Y">>)

PrimaryOf(c) == OwnValue(STATE_TO_ZIP, c)

NoDuplicates(list) ==
  \A i, j \in DOMAIN list : list[i] = list[j] => i = j

\* C9: for every region code the list pickZipsForState returns begins with
\* the region's primary postal code and holds no postal code twice, also
\* when the secondary table lists the primary again; the entries after the
\* first are the secondary table's, in its order, without the primary.
C9_PrimaryFirstNoDuplicates ==
  pc = "picked" /\ code \in Codes =>
    LET notPrimary(z) == z # PrimaryOf(code)
    IN /\ candidates # <<>>
       /\ Head(candidates) = PrimaryOf(code)
       /\ NoDuplicates(candidates)
       /\ Tail(candidates) = SelectSeq(SecondaryFor(code), notPrimary)

C9_Witness ==
  /\ pc = "picked"
  /\ code = <<"C","A">>
  /\ Includes(SecondaryFor(code), PrimaryOf(code))
  /\ candidates = << <<"9","5","8","1","4">>, <<"9","0","0","1","2">>,
                     <<"9","4","1","0","3">>, <<"9","2","8","0","5">> >>

\* C10: the candidate list is empty exactly when the region code is
\* unrecognized: every code normalizeState returns for a recognized region
\* has a primary postal code, a region without a secondary entry gets the
\* one-element list of its primary, an unrecognized code gets the empty list.
C10_EmptyIffUnrecognized ==
  pc = "picked" =>
    /\ candidates = <<>> <=> code \notin Codes
    /\ code \in Codes => HasOwn(STATE_TO_ZIP, code)
    /\ code \in Codes /\ SecondaryFor(code) = <<>> => candidates = <<PrimaryOf(code)>>
    /\ value # Undefined => code \in Codes /\ Head(candidates) = PrimaryOf(code)

C10_Witness ==
  /\ pc = "picked"
  /\ code = <<"Z","Z">>
  /\ candidates = <<>>

\* ------------------------------------------------------------------------
\* Claims about maskIP (FnSpec)
\* ------------------------------------------------------------------------

\* maskIP returned for the input in value.
Masked == pc = "masked"

\* C11: maskIP maps every IPv4 address a.b.c.d to 'a.b.c.0/24' and every
\* IPv6 address, written in full or in compressed '::' form, to its first
\* four hextets followed by '::/64', after stripping an IPv4-mapped IPv6
\* prefix and any zone index.
C11_MaskIsNetworkOfAddress ==
  Masked /\ IsAddress(value) => masked = NetworkOf(Stripped(value.s))

\* C12: for every input that is not a parseable IPv4 or IPv6 address (a
\* non-string, the empty string, or any other text that is no address)
\* maskIP returns the empty string.
C12_NonAddressMasksToEmpty ==
  Masked /\ ~IsAddress(value) => masked = <<>>

\* The IPv6 addresses among the inputs of maskIP.
V6Addresses == {v \in MaskInputs : v.t = "string" /\ IsIPv6(Stripped(v.s))}

\* The first 64 bits of each of them: its first four hextets.
PrefixOf == [v \in V6Addresses |-> SubSeq(HextetsOf(Stripped(v.s)), 1, 4)]

\* What maskIP returns for each of them.
MaskOf == [v \in V6Addresses |-> maskIP(v)]

\* C28: the masked form of an IPv6 address depends only on its first 64
\* bits: any two IPv6 addresses in the same /64 network, in whatever
\* textual form (full, compressed with '::', or shorter than four groups),
\* mask to the same string, so the output never carries bits of the
\* interface identifier.
C28_MaskDependsOnPrefixOnly ==
  Masked /\ value \in V6Addresses =>
    \A other \in V6Addresses : PrefixOf[other] = PrefixOf[value] => MaskOf[other] = masked

\* ------------------------------------------------------------------------
\* Claims about the credential resolver and the tunnel client (FnSpec)
\* ------------------------------------------------------------------------

\* The credential service gave all of host, port, user and pass.
ServiceYields(e, svc) ==
  /\ e.service
  /\ ~svc.err
  /\ \A v \in {svc.proxy.host, svc.proxy.port, svc.proxy.user, svc.proxy.pass} : Truthy(v)

\* Host, port, base user and pass are all configured.
LocallyConfigured(e) == \A v \in {e.host, e.port, e.baseUser, e.pass} : v # <<>>

\* C18: getProxyConfigForZip tries the remote credential service first
\* whenever one is configured; a transport error, a timeout or a response
\* lacking one of host/port/user/pass makes it fall to local templating
\* without propagating an error; local templating yields a credential
\* exactly when host, port, base user and pass are all configured, with
\* user '<base-user>;zip.<postal code>' and the shared host, port and pass;
\* otherwise the result is 'unavailable'.
C18_ServiceFirstThenTemplate ==
  pc = "resolved" =>
    /\ resolver.requests = (IF env.service THEN 1 ELSE 0)
    /\ ServiceYields(env, resolver.svc) =>
         resolver.cfg = [ok |-> TRUE, host |-> resolver.svc.proxy.host.s,
                         port |-> resolver.svc.proxy.port.s,
                         user |-> resolver.svc.proxy.user.s,
                         pass |-> resolver.svc.proxy.pass.s]
    /\ ~ServiceYields(env, resolver.svc) /\ LocallyConfigured(env) =>
         resolver.cfg = [ok |-> TRUE, host |-> env.host, port |-> env.port,
                         user |-> env.baseUser \o <<";","z","i","p",".">> \o resolver.zip,
                         pass |-> env.pass]
    /\ ~ServiceYields(env, resolver.svc) /\ ~LocallyConfigured(env) =>
         resolver.cfg = NoCfg

C18_Witness ==
  /\ pc = "resolved"
  /\ env.service
  /\ resolver.svc.err
  /\ resolver.requests = 1
  /\ resolver.cfg.ok
  /\ resolver.cfg.user = <<"u",";","z","i","p",".","7","8","7","0","1">>

\* The target is a plain-HTTP URL.
IsHttpTarget(u) == IsUrl(u) /\ Protocol(u) = <<"h","t","t","p",":">>

\* The response arrived whole with a 2xx status.
WholeSuccess(resp) == resp.complete /\ resp.status \in 200..299

\* C20: one tunnel-client call makes exactly one request attempt and
\* settles exactly once: it resolves with the response body when the
\* status is 2xx, and rejects on any non-2xx status, connection error,
\* timeout or non-http target URL, without retrying.
C20_TunnelCallSettlesOnce ==
  pc = "settled" =>
    /\ tunnel.settled.requests <= 1
    /\ IsHttpTarget(tunnel.targetUrl) => tunnel.settled.requests = 1
    /\ tunnel.settled.outcome \in {"resolved", "rejected"}
    /\ tunnel.settled.outcome = "resolved" <=>
         (IsHttpTarget(tunnel.targetUrl) /\ WholeSuccess(tunnel.resp))
    /\ tunnel.settled.outcome = "resolved" => tunnel.settled.data = tunnel.resp.text

\* ------------------------------------------------------------------------
\* Claims about the plain lookup (FnSpec)
\* ------------------------------------------------------------------------

\* The decimal value of the i-th group of a dotted quad.
Octet(s, i) == DecimalValue(Split(s, ".")[i])

\* Private, loopback and link-local IPv4 addresses (RFC 1918, RFC 1122,
\* RFC 3927) and shared address space (RFC 6598).
IsPrivateIPv4(s) ==
  /\ IsIPv4(s)
  /\ \/ Octet(s, 1) \in {0, 10, 127}
     \/ Octet(s, 1) = 172 /\ Octet(s, 2) \in 16..31
     \/ Octet(s, 1) = 192 /\ Octet(s, 2) = 168
     \/ Octet(s, 1) = 169 /\ Octet(s, 2) = 254
     \/ Octet(s, 1) = 100 /\ Octet(s, 2) \in 64..127

\* Loopback, unique local (fc00::/7) and link-local (fe80::/10) IPv6.
IsPrivateIPv6(s) ==
  /\ IsIPv6(s)
  /\ \/ s = <<":",":","1">>
     \/ StartsWith(s, <<"f","c">>) \/ StartsWith(s, <<"f","d">>)
     \/ StartsWith(s, <<"f","e","8">>) \/ StartsWith(s, <<"f","e","9">>)
     \/ StartsWith(s, <<"f","e","a">>) \/ StartsWith(s, <<"f","e","b">>)

IsUnroutable(s) == IsPrivateIPv4(s) \/ IsPrivateIPv6(s)

IsPublic(s) == (IsIPv4(s) \/ IsIPv6(s)) /\ ~IsUnroutable(s)

\* The provider reported failure, or the call erred or timed out.
LookupFailed(resp) == resp.err \/ resp.data.success = BoolFalse

\* C21: the plain lookup queries the provider with the given IP when it is
\* non-empty and publicly routable, and with no IP when the address is
\* empty or private/unroutable; when the provider reports failure or the
\* call errors or times out it returns null, and it never throws.
C21_LookupAsksForRoutableOnly ==
  pc = "looked" =>
    /\ ~looked.threw
    /\ looked.requests <= 1
    /\ looked.ip.t = "string" /\ IsPublic(looked.ip.s) =>
         looked.requests = 1 /\ looked.target = encodeURIComponent(looked.ip.s)
    /\ looked.ip.t = "string" /\ (looked.ip.s = <<>> \/ IsUnroutable(looked.ip.s)) =>
         looked.requests = 1 /\ looked.target = <<>>
    /\ LookupFailed(looked.resp) => looked.geo = NoData

\* ------------------------------------------------------------------------
\* Claims about the verification flow (Spec)
\* ------------------------------------------------------------------------

\* The request is over: answered, or left without an answer.
Terminal == pc \in {"done", "failed", "rejected"}

\* C1: whatever the claimed-state input and whatever the external calls
\* answer, the verification flow never raises, and the result it yields has
\* source 'proxy' or 'client' and match 'Yes', 'No' or 'Unknown'.
C1_FlowNeverRaises ==
  /\ pc \notin {"raised", "failed", "rejected"}
  /\ pc = "done" =>
       /\ result.done
       /\ result.ipSource \in {"proxy", "client"}
       /\ result.ip_state_match \in {"Yes", "No", "Unknown"}

\* C2: in every final result, match is 'Unknown' exactly when the claimed
\* region code or the observed region code is empty; otherwise it is 'Yes'
\* when the two codes are equal and 'No' when they differ, on the proxy
\* path and on the client path alike.
C2_MatchIsCodeEquality ==
  result.done =>
    /\ inputState.code.t = "string"
    /\ result.ip_state_match = "Unknown"
         <=> (inputState.code.s = <<>> \/ result.ipRegionCode = <<>>)
    /\ inputState.code.s # <<>> /\ result.ipRegionCode # <<>> =>
         result.ip_state_match =
           (IF inputState.code.s = result.ipRegionCode THEN "Yes" ELSE "No")

C2_Witness ==
  /\ pc = "done"
  /\ result.ipSource = "client"
  /\ inputState.code = Str(TX)
  /\ result.ipRegionCode = NY
  /\ result.ip_state_match = "No"

\* The direct-through-tunnel geo of the first candidate reported the
\* claimed region code.
PrimaryDirectMatch ==
  /\ idx = 1
  /\ geoDirect.ok
  /\ code # <<>>
  /\ geoDirect.region_code = code

\* C3: when the first candidate's direct-through-tunnel geo reports the
\* claimed region code, the loop stops at that candidate, no IP-discovery
\* request is made for it, no later candidate is tried, and the final
\* result has source 'proxy'.
C3_PrimaryDirectMatchIsProxyResult ==
  PrimaryDirectMatch =>
    /\ cur.echo = 0 /\ cur.lookup = 0
    /\ pc \notin {"loop", "direct", "echo", "lookup"}
    /\ result.done => result.ipSource = "proxy"

\* No candidate yielded a region match: getProxyIpForState did not return a
\* candidate's result.
NoCandidateMatched == ~proxyResult.ok

\* C4: if no candidate yields a region match, or there were no candidates,
\* the flow makes the plain lookup of the caller's own address exactly
\* once, records source 'client', and makes no further proxy attempt.
C4_NoMatchFallsBackToClient ==
  /\ Terminal /\ NoCandidateMatched /\ inputState.code.t = "string" =>
       /\ tot.client = 1
       /\ tot.validate = 0
       /\ result.done
       /\ result.ipSource = "client"
  /\ tot.client >= 1 => pc \notin {"start", "loop", "direct", "echo", "lookup", "decide"}

\* C5: when the claimed state normalizes to an empty region code, the proxy
\* path is still entered, and fails to match, before the client fallback
\* is taken, and the resulting match is 'Unknown'.
C5_EmptyCodeStillEntersProxyPath ==
  /\ tot.client >= 1 => proxyState = "returned"
  /\ Terminal /\ inputState.code = Str(<<>>) =>
       /\ proxyState = "returned"
       /\ NoCandidateMatched
       /\ tot.client = 1
       /\ result.done
       /\ result.ip_state_match = "Unknown"

\* ------------------------------------------------------------------------
\* The same request served again by the same process, the external
\* services answering as before
\* ------------------------------------------------------------------------

\* Number of identical requests one process serves.
MaxRuns == 2

\* One answer per external service, the same at every call.
Worlds(e) ==
  { [fixed |-> TRUE, svc |-> s, direct |-> d, echo |-> h, lookup |-> l, rq |-> q,
     sheets |-> a] :
      s \in IF e.service
            THEN {r \in ServiceResponses : r.err \/ Truthy(r.proxy.pass)}
            ELSE {NoServiceCall},
      d \in {r \in DirectResponses : r.status = 0 \/ (r.complete /\ Truthy(r.body.query))},
      h \in {r \in EchoResponses : r.status = 0 \/ (r.complete /\ ContainsDottedQuad(r.text)
                                                     /\ r.status = 200 /\ r.text # PrivateIp)},
      l \in {r \in PlainResponses : r.err \/ r.data.region_code \in {Str(<<"t","x">>), Str(NY), Num42}},
      q \in {r \in Requests : Truthy(r.remote) /\ r.realIp = NoHeader},
      a \in {r \in SheetsAnswers : r.client /\ (r.setup \/ r.append)} }

RepeatInit ==
  /\ pc = "start"
  /\ value \in {Str(TX), Str(<<>>), Str(<<"c","o","n","s","t","r","u","c","t","o","r">>)}
  /\ route \in Routes
  /\ env \in Environments
  /\ req = NoRequest
  /\ inputState = EmptyPair
  /\ code = <<>>
  /\ candidates = <<>>
  /\ FlowIdle
  /\ ApplyIdle
  /\ ProcessIdle
  /\ world \in Worlds(env)
  /\ run = 1
  /\ outcomes = <<>>
  /\ self = 1
  /\ parked = NoParked

\* How a request ended: what it answered and the result it reached.
Outcome == [pc |-> pc, response |-> response, result |-> result]

\* The request is over and the same request arrives again: the handler's
\* locals are new, the module's state, the sheet and the console stay.
Repeat ==
  /\ Terminal
  /\ run < MaxRuns
  /\ outcomes' = Append(outcomes, Outcome)
  /\ run' = run + 1
  /\ pc' = "start"
  /\ req' = NoRequest
  /\ inputState' = EmptyPair
  /\ code' = <<>>
  /\ candidates' = <<>>
  /\ idx' = 0
  /\ cfg' = NoCfg
  /\ geoDirect' = NoGeo
  /\ echoIdx' = 0
  /\ ip' = <<>>
  /\ lookupTarget' = <<>>
  /\ proxyState' = "notcalled"
  /\ proxyResult' = NoProxyResult
  /\ result' = NoResult
  /\ cur' = NoCalls
  /\ tot' = NoTotals
  /\ response' = "none"
  /\ sheets' = "none"
  /\ tried' = <<>>
  /\ row' = NoRow
  /\ answer' = NoAnswer
  /\ UNCHANGED <<value, route, env, world, procVars, applyVars, payload, sheetVars,
                 concVars>>

RepeatNext == Next \/ Repeat

RepeatSpec == RepeatInit /\ [][RepeatNext]_vars

\* ------------------------------------------------------------------------
\* Two requests served by one process at the same time
\* ------------------------------------------------------------------------

\* The handler's locals and position: what one request owns.
Locals ==
  [pc |-> pc, value |-> value, inputState |-> inputState, code |-> code,
   candidates |-> candidates, route |-> route, req |-> req, idx |-> idx, cfg |-> cfg,
   geoDirect |-> geoDirect, echoIdx |-> echoIdx, ip |-> ip, lookupTarget |-> lookupTarget,
   proxyState |-> proxyState, proxyResult |-> proxyResult, result |-> result, cur |-> cur,
   tot |-> tot, response |-> response, sheets |-> sheets, tried |-> tried,
   payload |-> payload, row |-> row, answer |-> answer, self |-> self]

\* The locals of a request that has just arrived.
Arrived(v, r, id) ==
  [pc |-> "start", value |-> v, inputState |-> EmptyPair, code |-> <<>>,
   candidates |-> <<>>, route |-> r, req |-> NoRequest, idx |-> 0, cfg |-> NoCfg,
   geoDirect |-> NoGeo, echoIdx |-> 0, ip |-> <<>>, lookupTarget |-> <<>>,
   proxyState |-> "notcalled", proxyResult |-> NoProxyResult, result |-> NoResult,
   cur |-> NoCalls, tot |-> NoTotals, response |-> "none", sheets |-> "none",
   tried |-> <<>>, payload |-> NoPayload, row |-> NoRow, answer |-> NoAnswer, self |-> id]

\* The event loop goes on with the request whose locals are l.
Resume(l) ==
  /\ pc' = l.pc
  /\ value' = l.value
  /\ inputState' = l.inputState
  /\ code' = l.code
  /\ candidates' = l.candidates
  /\ route' = l.route
  /\ req' = l.req
  /\ idx' = l.idx
  /\ cfg' = l.cfg
  /\ geoDirect' = l.geoDirect
  /\ echoIdx' = l.echoIdx
  /\ ip' = l.ip
  /\ lookupTarget' = l.lookupTarget
  /\ proxyState' = l.proxyState
  /\ proxyResult' = l.proxyResult
  /\ result' = l.result
  /\ cur' = l.cur
  /\ tot' = l.tot
  /\ response' = l.response
  /\ sheets' = l.sheets
  /\ tried' = l.tried
  /\ payload' = l.payload
  /\ row' = l.row
  /\ answer' = l.answer
  /\ self' = l.self

\* A process that has just started; it has not yet looked at the spreadsheet.
Restarted ==
  /\ sheetReady' = FALSE
  /\ rows' = <<>>
  /\ logged' = {}
  /\ sheet' = Unobserved
  /\ setups' = 0
  /\ adds' = 0

\* The states the two requests claim.
PairValues == {Str(TX), Str(<<"c","o","n","s","t","r","u","c","t","o","r">>)}

PairEnvironments ==
  { [service |-> FALSE, host |-> <<"g","w">>, port |-> <<"8","2","3">>, baseUser |-> <<"u">>, pass |-> <<"p","w">>],
    [service |-> TRUE, host |-> <<>>, port |-> <<>>, baseUser |-> <<>>, pass |-> <<>>] }

\* Worlds in which each service either fails or gives one good answer.
PairWorlds(e) ==
  { w \in Worlds(e) :
      /\ w.direct.status = 0 \/ w.direct.body.region = Str(TX)
      /\ w.echo.status = 0 \/ w.echo.text = PublicIp \o <<"\n">>
      /\ w.lookup.err \/ w.lookup.data.region_code \in {Str(<<"t","x">>), Str(NY)}
      /\ w.rq.xff = NoHeader
      /\ w.sheets.append }

PairInit ==
  /\ pc = "start"
  /\ value \in PairValues
  /\ route \in Routes
  /\ env \in PairEnvironments
  /\ req = NoRequest
  /\ inputState = EmptyPair
  /\ code = <<>>
  /\ candidates = <<>>
  /\ FlowIdle
  /\ ApplyIdle
  /\ ProcessIdle
  /\ world \in PairWorlds(env)
  /\ run = 1
  /\ outcomes = <<>>
  /\ self = 1
  /\ parked = NoParked

\* How a request ended when it was served alone.
Alone ==
  [value |-> value, route |-> route, pc |-> pc, response |-> response, result |-> result]

\* The first request was served alone; a process that has just started
\* serves the second one alone.
SecondAlone ==
  /\ run = 1
  /\ pc \in {"done", "failed", "rejected"}
  /\ outcomes' = <<Alone>>
  /\ run' = 2
  /\ \E v \in PairValues, r \in Routes : Resume(Arrived(v, r, 2))
  /\ parked' = NoParked
  /\ Restarted
  /\ UNCHANGED <<env, world, applyVars>>

\* Both requests were served alone; a process that has just started gets
\* both of them, the second arriving while the first is served.
BothArrive ==
  /\ run = 2
  /\ pc \in {"done", "failed", "rejected"}
  /\ outcomes' = Append(outcomes, Alone)
  /\ run' = 3
  /\ Resume(Arrived(outcomes[1].value, outcomes[1].route, 1))
  /\ parked' = [present |-> TRUE, locals |-> Arrived(value, route, 2)]
  /\ Restarted
  /\ UNCHANGED <<env, world, applyVars>>

\* The request being served waits at an await and the event loop goes on
\* with the other one.
Switch ==
  /\ parked.present
  /\ parked.locals.pc \notin {"done", "failed", "rejected"}
  /\ Resume(parked.locals)
  /\ parked' = [present |-> TRUE, locals |-> Locals]
  /\ UNCHANGED <<env, world, run, outcomes, applyVars, procVars, sheetVars>>

PairNext == Next \/ SecondAlone \/ BothArrive \/ Switch

PairSpec == PairInit /\ [][PairNext]_vars

\* ------------------------------------------------------------------------
\* Claims about logging, repetition, termination and the candidate loop
\* ------------------------------------------------------------------------

\* The text t holds the text s.
Contains(t, s) == \E i \in 0..(Len(t) - Len(s)) : SubSeq(t, i + 1, i + Len(s)) = s

\* A text exposes an address when it holds the whole of it and is not the
\* address's own network.
Exposes(t, a) ==
  /\ a # <<>>
  /\ Contains(t, a)
  /\ ~(IsAddress(Str(a)) /\ t = NetworkOf(Stripped(a)))

\* The address texts of the rows appended and of the response body.
RowAddresses == {rows[i].ip_masked : i \in DOMAIN rows}

ResponseAddresses == IF response = "ip_check" THEN {result.ip_masked} ELSE {}

\* C13: the resolved IP address reaches the console, the sheet and the
\* response only in masked form: no log line, no appended row and no
\* response body of the verification flow holds the unmasked resolved IP.
C13_ResolvedIpOnlyMasked ==
  \A t \in logged \cup RowAddresses \cup ResponseAddresses :
    ~Exposes(t, result.resolvedIp.s)

\* The request served now ended as the earlier request at position i did.
SameAsRun(i) == outcomes[i] = Outcome

\* C14: repeating a verification with the same claimed state, the same
\* caller address and identical stubbed external responses yields an
\* identical result (ip_masked, source, region code, region name, postal,
\* match) every time: no module-level state changed by an earlier request
\* influences a later result.
C14_RepeatedRequestSameResult ==
  Terminal => \A i \in DOMAIN outcomes : SameAsRun(i)

C14_Witness ==
  /\ run = 2
  /\ pc = "done"
  /\ sheetReady
  /\ Len(rows) = 2
  /\ result.ipSource = "proxy"
  /\ result.ip_state_match = "Yes"
  /\ outcomes[1].result = result

\* The /webhook request got its answer after the verification gave a result
\* and the row went to the Google Sheets part.
AnsweredWithResult ==
  /\ pc = "done"
  /\ result.done
  /\ sheets # "none"
  /\ response = "ip_check"

\* The request still has a step to take.
CanStep ==
  pc \in {"start", "loop", "direct", "echo", "lookup", "decide", "verified", "raised"}

InListOrder(s) == \A i \in DOMAIN s : s[i] = i

\* C16: candidates are tried strictly sequentially in candidate-list order,
\* primary first: no external call for candidate k+1 starts before every
\* call for candidate k has finished, and once some candidate's region code
\* equals the claimed code no call is made for any later candidate.
C16_CandidatesInOrder ==
  /\ [](/\ InListOrder(tried)
        /\ Len(tried) <= Len(candidates)
        /\ pc \in {"direct", "echo", "lookup"} => Len(tried) = idx
        /\ pc = "loop" => Len(tried) = idx - 1)
  /\ [][/\ cur' # cur => (idx' = idx \/ (idx' = idx + 1 /\ pc' = "loop"))
        /\ idx' # idx => idx' = idx + 1 /\ pc' = "loop"
        /\ proxyResult.ok => idx' = idx /\ cur' = cur /\ tried' = tried]_vars

C16_Witness ==
  /\ pc = "decide"
  /\ proxyResult.ok
  /\ idx = 2
  /\ tried = <<1, 2>>
  /\ Len(candidates) = 4
  /\ proxyResult.zip = candidates[2]

\* C17: for a candidate with a resolved credential, whenever direct
\* geo through the tunnel does not match the claimed code, IP discovery
\* through the tunnel is attempted for the same candidate with the same
\* credential before the next candidate is considered; a match there
\* records source 'proxy' and stops, anything else continues to the next
\* candidate without raising.
C17_DiscoveryFollowsDirectMismatch ==
  [][/\ pc = "direct" =>
          /\ pc' \in {"decide", "echo"}
          /\ pc' = "decide" <=> (geoDirect'.ok /\ geoDirect'.region_code = code)
          /\ pc' = "echo" => idx' = idx /\ cfg' = cfg /\ cfg.ok /\ echoIdx' = 1
     /\ pc = "echo" =>
          /\ pc' \in {"echo", "lookup", "loop"}
          /\ pc' \in {"echo", "lookup"} => idx' = idx /\ cfg' = cfg
          /\ pc' = "loop" => idx' = idx + 1
     /\ pc = "lookup" =>
          /\ pc' \in {"decide", "loop"}
          /\ pc' = "decide" => proxyResult'.ok /\ proxyResult'.source = "proxy"
                                 /\ proxyResult'.zip = candidates[idx]
          /\ pc' = "loop" => idx' = idx + 1]_vars

\* The credentials getProxyConfigForZip can yield for the candidate at i.
CredentialsFor(i) ==
  {getProxyConfigForZip(env, candidates[i], svc) :
     svc \in IF env.service THEN ServiceResponses ELSE {NoServiceCall}}

\* C19: within one request the credential resolver is invoked at most once
\* per candidate (never retried, never reusing a credential obtained for
\* another candidate), and when it yields no credential for a candidate no
\* tunnel request and no geolocation lookup is made for that candidate.
C19_ResolverOncePerCandidate ==
  /\ \A i, j \in DOMAIN tried : i # j => tried[i] # tried[j]
  /\ cur.resolver <= 1
  /\ cur.cfgs = 0 => cur.direct = 0 /\ cur.echo = 0 /\ cur.lookup = 0
  /\ pc \in {"direct", "echo", "lookup"} =>
       /\ cur.resolver = 1 /\ cur.cfgs = 1
       /\ tried[Len(tried)] = idx
       /\ cfg.ok
       /\ cfg \in CredentialsFor(idx)

C19_Witness ==
  /\ pc = "direct"
  /\ idx = 2
  /\ tried = <<1, 2>>
  /\ env.service
  /\ ~LocallyConfigured(env)
  /\ cfg.ok
  /\ cur = [NoCalls EXCEPT !.resolver = 1, !.cfgs = 1, !.cred = 1]

\* C22: IP discovery through the tunnel tries the IP-echo endpoints in their
\* fixed order and returns the result of the first endpoint whose body is a
\* syntactically valid IPv4 literal, skipping endpoints that fail; what it
\* returns is empty or a syntactically valid IPv4 address, and only such an
\* address is passed on to the plain lookup.
C22_DiscoveryYieldsIPv4 ==
  /\ pc = "echo" =>
       /\ echoIdx \in 1..Len(IpEchoTargets)
       /\ cur.echo = echoIdx - 1
       /\ ip = <<>>
  /\ pc = "lookup" => cur.echo = echoIdx /\ IsIPv4(ip)
  /\ ip # <<>> => IsIPv4(ip)

\* C23: for each candidate the flow issues at most one credential
\* resolution and at most two tunnel requests, so that the timed external
\* calls of a verification are bounded by candidates x (1 credential
\* resolution + 2 tunnel requests).
C23_TwoTunnelRequestsPerCandidate ==
  /\ cur.resolver <= 1
  /\ cur.cred <= 1
  /\ cur.direct + cur.echo <= 2

\* C25: whenever the final result has source 'proxy', the observed region
\* code recorded in it equals the claimed region code and match is 'Yes':
\* a proxy result is recorded only for a region-matching candidate and
\* nothing after the candidate loop can change the recorded region.
C25_ProxySourceMeansMatch ==
  /\ proxyResult.ok => proxyResult.region_code = code /\ code # <<>>
  /\ result.done /\ result.ipSource = "proxy" =>
       /\ proxyResult.ok
       /\ result.ipRegionCode = code
       /\ inputState.code = Str(code)
       /\ result.ip_state_match = "Yes"

\* getProxyIpForState returned the candidate at idx after IP discovery and
\* the plain lookup of the discovered address.
SuccessByDiscovery == pc = "decide" /\ proxyResult.ok /\ cur.lookup = 1

\* C26: in every proxy-sourced candidate success obtained through IP
\* discovery, the region code compared with the claimed code is the
\* geolocation of the discovered egress IP itself, for every discovered
\* address including private or unroutable ones; it is never the
\* geolocation of a different address such as the server's own.
C26_DiscoveredAddressIsLookedUp ==
  SuccessByDiscovery =>
    /\ proxyResult.ip = ip
    /\ ip # <<>>
    /\ lookupTarget = encodeURIComponent(ip)

\* The six cells as the server's own values give them.
ServerCells == [k \in IpKeys |-> Cell(ServerValues(result)[k])]

\* The client sent values of its own under the six keys.
Forged == payload # NoPayload /\ \A k \in IpKeys : Truthy(payload[k])

\* C27: the ip_masked, ip_source, ip_region_code, ip_region_name, ip_zip
\* and ip_state_match values in the appended row and in the response are
\* always the server-computed verification values: two requests that differ
\* only in client-supplied payload values for these keys produce the same
\* values in those six columns.
C27_IpColumnsAreServerValues ==
  payload # NoPayload =>
    /\ row = ServerCells
    /\ \A p \in Payloads : Row(p, result) = row
    /\ sheets = "appended" => rows[Len(rows)] = ServerCells

C27_Witness ==
  /\ Forged
  /\ sheets = "appended"
  /\ result.ipSource = "client"
  /\ result.ip_state_match = "No"
  /\ rows[Len(rows)].ip_source = <<"c","l","i","e","n","t">>
  /\ rows[Len(rows)].ip_state_match = <<"N","o">>

\* The ways the Google Sheets part fails.
SheetsErrors == {"client_error", "setup_error", "setup_conflict", "append_error"}

\* C30: the /webhook response reports success=true exactly when the row
\* was appended in that request; when sheet setup or the append fails it
\* reports success=false with sheets_error set, sheetReady is left false if
\* setup did not complete (so that the next request retries setup), and the
\* ip_check verification fields are still returned.
C30_SuccessIffRowAppended ==
  /\ [](sheetReady => sheet = [exists |-> "yes", header |-> "ours"])
  /\ [][route = "/webhook" /\ pc' # pc /\ pc' \in {"done", "failed"} =>
          /\ answer'.success <=> rows' = Append(rows, row)
          /\ ~answer'.success => rows' = rows
          /\ sheets' \in SheetsErrors =>
               /\ ~answer'.success
               /\ answer'.sheets_error = "message"
               /\ answer'.ip_check
               /\ response' = "ip_check"
          /\ sheets' \in {"setup_error", "setup_conflict"} => ~sheetReady']_vars

C30_Witness ==
  /\ pc = "done"
  /\ sheets = "setup_error"
  /\ sheet = [exists |-> "yes", header |-> "none"]
  /\ adds = 1
  /\ ~sheetReady
  /\ rows = <<>>
  /\ answer = [success |-> FALSE, sheets_error |-> "message", ip_check |-> TRUE]


\* Request i, ended at position p with result res and response resp, ended
\* as it did when it was served alone.
AsAlone(i, p, res, resp) ==
  /\ outcomes[i].pc = p
  /\ outcomes[i].result = res
  /\ outcomes[i].response = resp

\* C24: two requests served at the same time by one process, their awaited
\* calls interleaved in any order, each end with the result (and the kind of
\* response) they get when served alone with the same external responses.
C24_ConcurrentRequestsDoNotInterfere ==
  run = 3 =>
    /\ pc \in {"done", "failed", "rejected"} => AsAlone(self, pc, result, response)
    /\ parked.locals.pc \in {"done", "failed", "rejected"} =>
         AsAlone(parked.locals.self, parked.locals.pc, parked.locals.result,
                 parked.locals.response)

\* Both requests of a pair ended on /webhook, the other one's awaited calls
\* interleaved with this one's, both answered by the proxy.
C24_Witness ==
  /\ run = 3
  /\ pc = "done"
  /\ parked.locals.pc = "done"
  /\ route = "/webhook"
  /\ parked.locals.route = "/webhook"
  /\ result.ipSource = "proxy"
  /\ parked.locals.result.ipSource = "proxy"
  /\ Len(rows) = 2

\* C29: while requests are served at the same time, the sheet setup is
\* started at most once, the request that adds the sheet is sent at most
\* once, and no request fails because the other one had created the sheet.
C29_SheetSetupRunsOnce ==
  /\ setups <= 1
  /\ adds <= 1
  /\ sheets # "setup_conflict"
  /\ parked.present => parked.locals.sheets # "setup_conflict"

\* The part of C29 about the refused request alone: no request's append is
\* lost because the other request had created the sheet in between.
C29_NoAppendLostToSetup ==
  /\ sheets # "setup_conflict"
  /\ parked.present => parked.locals.sheets # "setup_conflict"
====
